---------------------------- MODULE Spec2Model ----------------------------
(***************************************************************************)
(* Opponent chess engines: the UCI front ends (coverage, capture, random   *)
(* and the threaded UCIOpponentEngine), the iterative-deepening search     *)
(* they drive, and the transposition table.                                *)
(*                                                                         *)
(* The board library (python-chess) is outside the repository.  It is     *)
(* replaced by a small take-away game that keeps what the engine code      *)
(* reads from a board: the side to move, the legal moves, captures,        *)
(* checks, checkmate, stalemate, insufficient material, FEN parsing, UCI   *)
(* move parsing, and push/pop with (as in python-chess) no legality check  *)
(* in push.                                                                *)
(***************************************************************************)
EXTENDS Integers, Sequences, FiniteSets, TLC

(***************************************************************************)
(* Bounds of the model.                                                    *)
(***************************************************************************)
\* material units on the board in the starting position of the game
StartH == 4
\* input lines one run of a front end reads
MaxLines == 2
\* time checks that may pass before the deadline of a timed search expires
MaxClock == 4
\* capacity (records) of the transposition table in the table specification
MaxTTSize == 3
\* stores made in the table specification
MaxStores == 4
\* the distinct position keys stored
MaxKeys == 4
\* the largest starting height of a search called directly
MaxSearchH == 4
\* the largest max_depth of a search called directly
MaxSearchDepth == 3
\* the most _is_time_up calls that answer False in a search called directly
MaxSearchClock == 12
\* get_best_move calls on one engine
MaxCalls == 2
\* searches (ages) in the table specification
MaxAge == 4
\* moves pushed on the board of an engine whose _search is called directly
MaxPushes == 4
\* the most material on such a board
MaxDirectH == 3
\* the largest ply a direct _search call is given
MaxPly == 2
\* direct calls on one engine
MaxSearches == 2
\* the longest sequence of moves played and unmade in one step
MaxUnmade == 3
\* the most material on the board of a _search call given its own window, the
\* largest depth of such a call and the moves pushed after it
MaxNodeH == 4
MaxNodeDepth == 4
MaxNodePushes == 1
\* get_best_move calls on an engine with a small table, and the capacities
\* of that table
MaxAgedCalls == 4
MaxAgedTTSize == 2
\* _update_killer_moves calls made directly on one engine
MaxKillerCalls == 3
\* the material of the positions with long capture sequences, the iteration
\* limits of the engines searching them and the calls made on one engine
MinDeepH == 22
MaxDeepH == 27
MaxDeepDepth == 2
MaxDeepCalls == 1
\* the files and ranks of the board the coverage evaluator is applied to, and
\* the most pieces on it
BoardFiles == 3
BoardRanks == 3
MaxPieces == 2
\* the deepest record in a table probed directly
MaxProbeDepth == 2
\* the largest value, and window bound, in a table probed directly
MaxProbeValue == 10

(***************************************************************************)
(* Program constants.                                                      *)
(***************************************************************************)
MAX_QUIESCENCE_DEPTH == 8
MATE_SCORE == 30000
CHECKMATE_BONUS == 900000
CHECK_BONUS == 500000
CAPTURE_BONUS == 400000
KILLER_BONUS == 300000
PROMOTION_BONUS == 200000
PAWN_ADVANCE_BONUS == 100000
TT_MOVE_SCORE == 1000000
\* float('inf'): larger than every score the search can produce
INF == 1000000000
\* CoverageOpponent() defaults
DefaultMaxDepth == 6
DefaultTTSizeMB == 128
\* len(self.killer_moves)
MAX_PLY == 64
MOBILITY_VALUE == 1
OCCUPIED_ATTACK_BONUS == 1

None == "None"

Max(a, b) == IF a >= b THEN a ELSE b
Min(a, b) == IF a <= b THEN a ELSE b

(***************************************************************************)
(* The board abstraction.  A position is [kind, h, turn, fullmove]: h      *)
(* units of material, the side to move, the kind of ending the material    *)
(* allows ("n": running out of moves is checkmate, "s": it is stalemate,   *)
(* "i": insufficient material, a draw although moves remain, "k": Black    *)
(* has a bare king, which can only step aside while material is left and   *)
(* is mated when none is, "p": the side to move also has pawns, one that   *)
(* can promote, one that can reach its seventh rank and one that can make  *)
(* a step in its own half) and the fullmove number.                        *)
(***************************************************************************)
Turns == {"w", "b"}
Other(t) == IF t = "w" THEN "b" ELSE "w"

\* the move strings Move.from_uci accepts, in move-generation order
MoveOrder == <<"q1", "x2", "x3", "r0">>
MoveNames == {MoveOrder[i] : i \in 1..Len(MoveOrder)}
\* the pawn moves of a position of kind "p", generated after the piece moves:
\* a promotion to a queen, a push to the mover's seventh rank and a push that
\* stays in the mover's half
PawnMoveOrder == <<"e8", "a6", "p3">>
PawnMoves == {PawnMoveOrder[i] : i \in 1..Len(PawnMoveOrder)}
\* material a move takes off the board
Take(m) ==
    CASE m = "q1" -> 1 [] m = "x2" -> 2 [] m = "x3" -> 3 [] m = "r0" -> 0
      [] m \in PawnMoves -> 1
\* move.promotion, and the ordering value of the piece promoted to
IsPromotion(m) == m = "e8"
PromotionValue(m) == 9
\* board.piece_at(move.from_square) is a pawn
IsPawnMove(p, m) == m \in PawnMoves
\* chess.square_rank(move.to_square): the moves are named from White's side
\* and mirrored for Black
ToRank(p, m) ==
    IF p.turn = "w" THEN (CASE m = "e8" -> 7 [] m = "a6" -> 6 [] m = "p3" -> 3)
    ELSE (CASE m = "e8" -> 0 [] m = "a6" -> 1 [] m = "p3" -> 4)
\* board.is_capture(move)
IsCapture(p, m) == m \in {"x2", "x3"}
\* ordering value of the captured piece and of the capturing piece
VictimValue(m) == IF m = "x3" THEN 3 ELSE 1
AttackerValue(m) == IF m = "x3" THEN 5 ELSE 1

StartPos == [kind |-> "n", h |-> StartH, turn |-> "w", fullmove |-> 1]

\* list(board.legal_moves)
LegalMoves(p) ==
    IF p.kind = "p"
    THEN {m \in {"q1", "x2", "x3"} \cup PawnMoves : Take(m) <= p.h}
    ELSE IF p.kind = "i"
    THEN {m \in {"q1"} : Take(m) <= p.h}
    ELSE IF p.kind = "k"
    THEN (IF p.turn = "w" THEN {m \in {"q1", "x2", "x3"} : Take(m) <= p.h} ELSE {})
         \cup (IF p.h >= 1 THEN {"r0"} ELSE {})
    ELSE {m \in {"q1", "x2", "x3"} : Take(m) <= p.h}
\* board.is_check()
IsCheck(p) ==
    \/ p.kind = "n" /\ p.h \in {0, 3}
    \/ p.kind = "k" /\ p.h = 0 /\ p.turn = "b"
    \/ p.kind = "p" /\ p.h \in {0, 2}
IsCheckmate(p) == LegalMoves(p) = {} /\ IsCheck(p)
IsStalemate(p) == LegalMoves(p) = {} /\ ~IsCheck(p)
IsInsufficientMaterial(p) == p.kind = "i"
\* the game is over by the position alone: checkmate, stalemate or
\* insufficient material
IsGameOver(p) == IsCheckmate(p) \/ IsStalemate(p) \/ IsInsufficientMaterial(p)

\* the position after a move; push does not check legality, and a move that
\* takes more than there is leaves a position no legal play reaches
ApplyMove(p, m) ==
    [kind |-> p.kind, h |-> Max(p.h - Take(m), 0), turn |-> Other(p.turn),
     fullmove |-> IF p.turn = "b" THEN p.fullmove + 1 ELSE p.fullmove]
\* chess.Move.null()
ApplyNull(p) ==
    [p EXCEPT !.turn = Other(p.turn),
              !.fullmove = IF p.turn = "b" THEN @ + 1 ELSE @]
\* board.gives_check(move)
GivesCheck(p, m) == IsCheck(ApplyMove(p, m))

\* a pop that leaves the side to move as it is
PopKeepsTurn(b) ==
    [pos |-> [b.undo[Len(b.undo)] EXCEPT !.turn = b.pos.turn],
     moves |-> SubSeq(b.moves, 1, Len(b.moves) - 1),
     undo |-> SubSeq(b.undo, 1, Len(b.undo) - 1)]

\* A board: the position, the moves pushed and the positions to pop back to.
NewBoard(p) == [pos |-> p, moves |-> <<>>, undo |-> <<>>]
Push(b, m) ==
    [pos |-> IF m = "null" THEN ApplyNull(b.pos) ELSE ApplyMove(b.pos, m),
     moves |-> Append(b.moves, m),
     undo |-> Append(b.undo, b.pos)]
Pop(b) ==
    [pos |-> b.undo[Len(b.undo)],
     moves |-> SubSeq(b.moves, 1, Len(b.moves) - 1),
     undo |-> SubSeq(b.undo, 1, Len(b.undo) - 1)]

\* the same position for the repetition rules: the fullmove number apart
SamePosition(p, q) == p.kind = q.kind /\ p.h = q.h /\ p.turn = q.turn
\* how many times the position on the board has occurred in the game
Occurrences(b) ==
    1 + Cardinality({j \in 1..Len(b.undo) : SamePosition(b.undo[j], b.pos)})
\* board.is_game_over(): over by the position, or by fivefold repetition (the
\* seventy-five-move rule needs a game longer than the model's); a threefold
\* repetition ends the game only when claimed, and claim_draw is False
BoardIsGameOver(b) == IsGameOver(b.pos) \/ Occurrences(b) >= 5

\* chess.Board(fen): the FEN fields that parse, and the positions they give
FenTable ==
    (<<"n2", "b">> :> [kind |-> "n", h |-> 2, turn |-> "b", fullmove |-> 1]) @@
    (<<"n0", "b">> :> [kind |-> "n", h |-> 0, turn |-> "b", fullmove |-> 1]) @@
    (<<"s0", "w">> :> [kind |-> "s", h |-> 0, turn |-> "w", fullmove |-> 1]) @@
    (<<"i2", "w">> :> [kind |-> "i", h |-> 2, turn |-> "w", fullmove |-> 1])
FenValid(f) == f \in DOMAIN FenTable

\* int(token) and float(token): the tokens that parse and their values
IntTable ==
    ("0" :> 0) @@ ("1" :> 1) @@ ("2" :> 2) @@ ("25" :> 25) @@ ("100" :> 100)
    @@ ("2000" :> 2000)
IsNumber(tok) == tok \in DOMAIN IntTable


(***************************************************************************)
(* The engine object (CoverageOpponent, CaptureOpponent): a record.        *)
(* clock is the model of time.time() against the deadline: the number of   *)
(* _is_time_up calls that still answer False (-1: no deadline); expired    *)
(* records that a call answered True.  cutoffs is the log of the beta      *)
(* cutoffs of the call in progress: the move, the remaining depth and the  *)
(* ply of the node, and whether the move was a capture there.  stores and  *)
(* nulls are the logs of its _store_tt_entry calls and of its null moves,  *)
(* qdeep is the largest depth a _quiescence_search was entered with and    *)
(* reach the largest depth + ply a _search was entered with (-1: none);    *)
(* entered counts the _search calls begun and entry gives, for the number  *)
(* of moves on the board, the count at which the last call on a board with *)
(* that many moves began: calls nest, so it numbers the call in progress   *)
(* there.  These are kept for an engine whose logging is on.               *)
(***************************************************************************)
NoDeadline == -1

\* (tt_size_mb * 1024 * 1024) // 64
TTSizeOf(tt_size_mb) == (tt_size_mb * 1024 * 1024) \div 64

\* total material on the board (both sides), in ordering units
CalculateTotalMaterial(p) == p.h

NewEngine(type, max_depth, tt_size_mb) ==
    [type |-> type,
     board |-> NewBoard(StartPos),
     max_depth |-> max_depth,
     nodes_searched |-> 0,
     age |-> 0,
     tt_size |-> TTSizeOf(tt_size_mb),
     tt |-> <<>>,
     killers |-> <<>>,
     history |-> <<>>,
     starting_material |-> CalculateTotalMaterial(StartPos),
     clock |-> NoDeadline,
     expired |-> FALSE,
     cutoffs |-> <<>>,
     logging |-> FALSE,
     stores |-> <<>>,
     nulls |-> <<>>,
     qdeep |-> -1,
     reach |-> -1,
     entered |-> 0,
     entry |-> <<>>]

\* the logs of a call that begins
ClearLogs(e) ==
    [e EXCEPT !.cutoffs = <<>>, !.stores = <<>>, !.nulls = <<>>, !.qdeep = -1, !.reach = -1,
              !.entered = 0, !.entry = <<>>]

\* _is_time_up
IsTimeUp(e) == e.clock = 0
\* the engine after one _is_time_up call
AfterTimeCheck(e) ==
    IF e.clock > 0 THEN [e EXCEPT !.clock = @ - 1]
    ELSE IF e.clock = 0 THEN [e EXCEPT !.expired = TRUE]
    ELSE e

\* _get_zobrist_key: XOR of one constant per feature of the position; the
\* constants are independent random words, so the key is the set of features
\* present and XOR is the symmetric difference
Xor(a, b) == (a \ b) \cup (b \ a)
ZobristPieces(p) ==
    {i : i \in 1..p.h} \cup
    (CASE p.kind = "n" -> {201} [] p.kind = "s" -> {202} [] p.kind = "i" -> {203}
       [] p.kind = "k" -> {204} [] p.kind = "p" -> {205})
ZobristSide == {100}
ZobristKey(p) ==
    LET k1 == Xor({}, ZobristPieces(p))
        k2 == IF p.turn = "b" THEN Xor(k1, ZobristSide) ELSE k1
    IN  k2

\* CoverageOpponent._evaluate_position: white coverage minus black coverage,
\* from the side to move
WhiteCoverage(p) == ((3 * p.h) % 7) + (IF p.kind = "i" THEN 1 ELSE 0)
BlackCoverage(p) == (5 * p.h) % 6
EvaluateCoverage(p) ==
    LET score == WhiteCoverage(p) - BlackCoverage(p)
    IN  IF p.turn = "w" THEN score ELSE -score

\* CaptureOpponent._evaluate_position
EvaluateCapture(e, p) ==
    IF IsCheckmate(p) THEN -999999
    ELSE IF IsStalemate(p) \/ IsInsufficientMaterial(p) THEN 999999 \div 2
    ELSE LET reduction == e.starting_material - CalculateTotalMaterial(p)
             score == reduction * 10000
             ncap == Cardinality({m \in LegalMoves(p) : IsCapture(p, m)})
         IN  IF ncap > 0 THEN score + 50000 + ncap * 10000
             ELSE score - 100000

Evaluate(e, p) ==
    IF e.type = "capture" THEN EvaluateCapture(e, p) ELSE EvaluateCoverage(p)

\* _mvv_lva_score
MvvLvaScore(p, m) ==
    IF ~IsCapture(p, m) THEN 0 ELSE VictimValue(m) * 10 - AttackerValue(m)

\* the legal moves in generation order
LegalMoveSeq(p) == SelectSeq(MoveOrder \o PawnMoveOrder, LAMBDA m : m \in LegalMoves(p))

\* list.sort(key=score, reverse=True): stable, descending.  Items are
\* <<score, move>> pairs.
RECURSIVE InsertByScore(_, _, _)
InsertByScore(sorted, item, i) ==
    IF i > Len(sorted) THEN Append(sorted, item)
    ELSE IF sorted[i][1] < item[1]
         THEN SubSeq(sorted, 1, i - 1) \o <<item>> \o SubSeq(sorted, i, Len(sorted))
         ELSE InsertByScore(sorted, item, i + 1)
RECURSIVE SortDescending(_, _, _)
SortDescending(items, i, acc) ==
    IF i > Len(items) THEN acc
    ELSE SortDescending(items, i + 1, InsertByScore(acc, items[i], 1))
MovesOf(items) == [i \in 1..Len(items) |-> items[i][2]]

KillersAt(e, ply) ==
    IF ply \in DOMAIN e.killers THEN e.killers[ply] ELSE <<None, None>>
HistoryOf(e, m) == IF m \in DOMAIN e.history THEN e.history[m] ELSE 0

\* the score of a pawn move that is none of the above: the bonus on the
\* mover's sixth and seventh rank, else the initial score = 0
PawnAdvanceScore(p, m) ==
    IF p.turn = "w" /\ ToRank(p, m) >= 5 THEN PAWN_ADVANCE_BONUS + ToRank(p, m) * 1000
    ELSE IF p.turn = "b" /\ ToRank(p, m) <= 2
         THEN PAWN_ADVANCE_BONUS + (7 - ToRank(p, m)) * 1000
    ELSE 0

\* the score CoverageOpponent._order_moves gives a move
MoveScore(e, p, m, ply, tt_move) ==
    IF tt_move # None /\ m = tt_move THEN TT_MOVE_SCORE
    ELSE IF GivesCheck(p, m)
         THEN IF IsCheckmate(ApplyMove(p, m)) THEN CHECKMATE_BONUS ELSE CHECK_BONUS
    ELSE IF IsCapture(p, m) THEN CAPTURE_BONUS + MvvLvaScore(p, m)
    ELSE IF ply < MAX_PLY /\ (m = KillersAt(e, ply)[1] \/ m = KillersAt(e, ply)[2])
         THEN KILLER_BONUS
    ELSE IF IsPromotion(m) THEN PROMOTION_BONUS + PromotionValue(m)
    ELSE IF IsPawnMove(p, m) THEN PawnAdvanceScore(p, m)
    ELSE HistoryOf(e, m)

\* CoverageOpponent._order_moves
OrderMovesCoverage(e, p, moves, ply, tt_move) ==
    MovesOf(SortDescending(
        [i \in 1..Len(moves) |-> <<MoveScore(e, p, moves[i], ply, tt_move), moves[i]>>],
        1, <<>>))

\* CaptureOpponent._order_moves: captures by victim value, then the rest
OrderMovesCapture(e, p, moves, ply, tt_move) ==
    LET caps == SelectSeq(moves, LAMBDA m : IsCapture(p, m))
        rest == SelectSeq(moves, LAMBDA m : ~IsCapture(p, m))
    IN  MovesOf(SortDescending(
            [i \in 1..Len(caps) |-> <<VictimValue(caps[i]), caps[i]>>], 1, <<>>))
        \o rest

OrderMoves(e, p, moves, ply, tt_move) ==
    IF e.type = "capture" THEN OrderMovesCapture(e, p, moves, ply, tt_move)
    ELSE OrderMovesCoverage(e, p, moves, ply, tt_move)

\* a killer update that does not look at slot 0 first
UpdateKillerMovesAlways(e, m, ply) ==
    IF ply < MAX_PLY
    THEN [e EXCEPT !.killers = (ply :> <<m, KillersAt(e, ply)[1]>>) @@ @]
    ELSE e
\* _update_killer_moves
UpdateKillerMoves(e, m, ply) ==
    IF ply < MAX_PLY /\ KillersAt(e, ply)[1] # m
    THEN [e EXCEPT !.killers = (ply :> <<m, KillersAt(e, ply)[1]>>) @@ @]
    ELSE e
\* a history update that adds the depth
UpdateHistoryByDepth(e, m, depth) ==
    [e EXCEPT !.history = (m :> (HistoryOf(e, m) + depth)) @@ @]
\* _update_history
UpdateHistory(e, m, depth) ==
    [e EXCEPT !.history = (m :> (HistoryOf(e, m) + depth * depth)) @@ @]
\* a table update that does not ask whether the move is a capture
UpdateTablesAnyMove(e, m, depth, ply) ==
    UpdateHistory(UpdateKillerMoves(e, m, ply), m, depth)
\* _search on a beta cutoff by m (the board is back at the node's position)
UpdateTables(e, m, depth, ply) ==
    IF ~IsCapture(e.board.pos, m)
    THEN UpdateHistory(UpdateKillerMoves(e, m, ply), m, depth)
    ELSE e
\* the beta cutoff by m enters the log
LogCutoff(e, m, depth, ply) ==
    [e EXCEPT !.cutoffs = Append(@, [move |-> m, depth |-> depth, ply |-> ply,
                                     capture |-> IsCapture(e.board.pos, m)])]

(***************************************************************************)
(* The transposition table: a Python dict, that is a sequence of records   *)
(* with distinct keys in insertion order.  k is the key a record is filed  *)
(* under, the other fields are those of TTEntry.                           *)
(***************************************************************************)
TTIndex(tt, key) ==
    IF \E i \in 1..Len(tt) : tt[i].k = key
    THEN CHOOSE i \in 1..Len(tt) : tt[i].k = key
    ELSE 0

\* old keys that include the records of the search before the last
OldKeysOneSearchBack(tt, age) == {i \in 1..Len(tt) : tt[i].age < age - 1}
\* old_keys: the indices of the records with age < self.age - 2
OldKeys(tt, age) == {i \in 1..Len(tt) : tt[i].age < age - 2}
\* old_keys[:len(old_keys)//2]: the first half of them, in dict order
EvictedKeys(tt, age) ==
    LET old == OldKeys(tt, age)
        n == Cardinality(old) \div 2
    IN  {i \in old : Cardinality({j \in old : j <= i}) <= n}
RECURSIVE Drop(_, _, _)
Drop(tt, gone, i) ==
    IF i > Len(tt) THEN <<>>
    ELSE (IF i \in gone THEN <<>> ELSE <<tt[i]>>) \o Drop(tt, gone, i + 1)

\* TTEntry(zobrist_key, depth, value, node_type, best_move, age) filed under key
TTEntry(key, zobrist_key, depth, value, node_type, best_move, age) ==
    [k |-> key, zobrist_key |-> zobrist_key, depth |-> depth, value |-> value,
     node_type |-> node_type, best_move |-> best_move, age |-> age]

\* a store that gives up when the table is still full after the eviction
StoreUnlessFull(e, zobrist_key, depth, value, node_type, best_move) ==
    LET tt1 == IF Len(e.tt) >= e.tt_size
               THEN Drop(e.tt, EvictedKeys(e.tt, e.age), 1)
               ELSE e.tt
        entry == TTEntry(zobrist_key, zobrist_key, depth, value, node_type,
                         best_move, e.age)
        i == TTIndex(tt1, zobrist_key)
    IN  [e EXCEPT !.tt = IF i # 0 THEN [tt1 EXCEPT ![i] = entry]
                         ELSE IF Len(tt1) >= e.tt_size THEN tt1
                         ELSE Append(tt1, entry)]

\* _store_tt_entry
StoreTTEntry(e, zobrist_key, depth, value, node_type, best_move) ==
    LET tt1 == IF Len(e.tt) >= e.tt_size
               THEN Drop(e.tt, EvictedKeys(e.tt, e.age), 1)
               ELSE e.tt
        entry == TTEntry(zobrist_key, zobrist_key, depth, value, node_type,
                         best_move, e.age)
        i == TTIndex(tt1, zobrist_key)
    IN  [e EXCEPT !.tt = IF i = 0 THEN Append(tt1, entry)
                         ELSE [tt1 EXCEPT ![i] = entry]]

\* a probe that returns the value of a record whatever its depth
ProbeAnyDepth(e, zobrist_key, depth, alpha, beta) ==
    LET i == TTIndex(e.tt, zobrist_key)
        entry == e.tt[i]
    IN  IF i = 0 THEN [hit |-> FALSE, value |-> 0, move |-> None]
        ELSE IF entry.node_type = "EXACT"
             THEN [hit |-> TRUE, value |-> entry.value, move |-> entry.best_move]
        ELSE IF entry.node_type = "LOWER_BOUND" /\ entry.value >= beta
             THEN [hit |-> TRUE, value |-> entry.value, move |-> entry.best_move]
        ELSE IF entry.node_type = "UPPER_BOUND" /\ entry.value <= alpha
             THEN [hit |-> TRUE, value |-> entry.value, move |-> entry.best_move]
        ELSE [hit |-> FALSE, value |-> 0, move |-> entry.best_move]

\* _probe_tt: hit says whether a value is returned
ProbeTT(e, zobrist_key, depth, alpha, beta) ==
    LET i == TTIndex(e.tt, zobrist_key)
        entry == e.tt[i]
    IN  IF i = 0 THEN [hit |-> FALSE, value |-> 0, move |-> None]
        ELSE IF entry.depth < depth
             THEN [hit |-> FALSE, value |-> 0, move |-> entry.best_move]
        ELSE IF entry.node_type = "EXACT"
             THEN [hit |-> TRUE, value |-> entry.value, move |-> entry.best_move]
        ELSE IF entry.node_type = "LOWER_BOUND" /\ entry.value >= beta
             THEN [hit |-> TRUE, value |-> entry.value, move |-> entry.best_move]
        ELSE IF entry.node_type = "UPPER_BOUND" /\ entry.value <= alpha
             THEN [hit |-> TRUE, value |-> entry.value, move |-> entry.best_move]
        ELSE [hit |-> FALSE, value |-> 0, move |-> entry.best_move]

(***************************************************************************)
(* The search.  Every operator takes the engine and returns it with the    *)
(* result, as the methods mutate self.                                     *)
(***************************************************************************)
RECURSIVE QuiescenceSearch(_, _, _, _)
RECURSIVE QuiescenceLoop(_, _, _, _, _, _)
RECURSIVE Search(_, _, _, _, _, _)
RECURSIVE SearchLoop(_, _, _, _, _, _, _, _, _)

\* board.pop() on the engine's board
Popped(e) == [e EXCEPT !.board = Pop(@)]
\* the last move on the board is a null move
AfterNullMove(b) == Len(b.moves) > 0 /\ b.moves[Len(b.moves)] = "null"

\* the number of the _search call in progress on the engine's board
CallOf(e) == e.entry[Len(e.board.moves)]

\* a _search call begins: its number, reach, and the arguments of a call made
\* on a board whose last move is a null move
Entered(e, depth, alpha, beta, ply, do_null_move) ==
    IF ~e.logging THEN e
    ELSE [e EXCEPT !.reach = Max(@, depth + ply),
                   !.entered = @ + 1,
                   !.entry = (Len(e.board.moves) :> (e.entered + 1)) @@ @,
                   !.nulls = IF AfterNullMove(e.board)
                             THEN Append(@, [ev |-> "child", path |-> e.board.moves,
                                             depth |-> depth, alpha |-> alpha, beta |-> beta,
                                             allowed |-> do_null_move])
                             ELSE @]
\* a _quiescence_search call begins
EnteredQuiescence(e, depth) ==
    IF ~e.logging THEN e ELSE [e EXCEPT !.qdeep = Max(@, depth)]
\* a node is about to push a null move
LogNull(e, depth, beta, do_null_move) ==
    IF ~e.logging THEN e
    ELSE [e EXCEPT !.nulls = Append(@,
             [ev |-> "null", path |-> e.board.moves, depth |-> depth, beta |-> beta,
              allowed |-> do_null_move, in_check |-> IsCheck(e.board.pos),
              eval |-> Evaluate(e, e.board.pos), after_null |-> AfterNullMove(e.board)])]
\* the null move was popped: the negated score of its search
LogNullBack(e, null_score, depth, beta) ==
    IF ~e.logging THEN e
    ELSE [e EXCEPT !.nulls = Append(@,
             [ev |-> "back", path |-> e.board.moves, depth |-> depth, beta |-> beta,
              null_score |-> null_score, nstores |-> Len(e.stores), call |-> CallOf(e)])]
\* board.push(move) on the engine's board
Pushed(e, m) == [e EXCEPT !.board = Push(@, m)]

\* the captures of _quiescence_search, sorted by MVV-LVA
SortByMvvLva(p, caps) ==
    MovesOf(SortDescending(
        [i \in 1..Len(caps) |-> <<MvvLvaScore(p, caps[i]), caps[i]>>], 1, <<>>))
SortedCaptures(p) ==
    SortByMvvLva(p, SelectSeq(LegalMoveSeq(p), LAMBDA m : IsCapture(p, m)))

\* _quiescence_search after a capture was searched: cutoff or next capture
QuiescenceScored(r, captures, i, alpha, beta, depth) ==
    IF -r.value >= beta THEN [value |-> beta, e |-> Popped(r.e)]
    ELSE QuiescenceLoop(Popped(r.e), captures, i + 1, Max(alpha, -r.value), beta, depth)

\* _quiescence_search: the loop over the captures
QuiescenceLoop(e, captures, i, alpha, beta, depth) ==
    IF i > Len(captures) THEN [value |-> alpha, e |-> e]
    ELSE QuiescenceScored(QuiescenceSearch(Pushed(e, captures[i]), -beta, -alpha, depth + 1),
                          captures, i, alpha, beta, depth)

\* _quiescence_search from the stand-pat evaluation on
QuiescenceStandPat(e, stand_pat, alpha, beta, depth) ==
    IF stand_pat >= beta THEN [value |-> beta, e |-> e]
    ELSE QuiescenceLoop(e, SortedCaptures(e.board.pos), 1,
                        Max(alpha, stand_pat), beta, depth)

\* a quiescence node that stops on the deadline only
QuiescenceNodeUnbounded(e, up, alpha, beta, depth) ==
    IF up
    THEN [value |-> Evaluate(e, e.board.pos), e |-> e]
    ELSE QuiescenceStandPat([e EXCEPT !.nodes_searched = @ + 1],
                            Evaluate(e, e.board.pos), alpha, beta, depth)

\* _quiescence_search after its _is_time_up call (up is what the call said)
QuiescenceNode(e, up, alpha, beta, depth) ==
    IF up \/ depth > MAX_QUIESCENCE_DEPTH
    THEN [value |-> Evaluate(e, e.board.pos), e |-> e]
    ELSE QuiescenceStandPat([e EXCEPT !.nodes_searched = @ + 1],
                            Evaluate(e, e.board.pos), alpha, beta, depth)

\* _quiescence_search
QuiescenceSearch(e0, alpha, beta, depth) ==
    QuiescenceNode(AfterTimeCheck(EnteredQuiescence(e0, depth)), IsTimeUp(e0), alpha, beta,
                   depth)

\* a node type that takes every value above alpha for a lower bound
NodeTypeWithoutExact(best_value, alpha, beta) ==
    IF best_value <= alpha THEN "UPPER_BOUND" ELSE "LOWER_BOUND"

\* the node type _search stores (alpha is original_alpha)
NodeTypeOf(best_value, alpha, beta) ==
    IF best_value <= alpha THEN "UPPER_BOUND"
    ELSE IF best_value >= beta THEN "LOWER_BOUND"
    ELSE "EXACT"

\* the ages of the records of table tt that table after no longer holds
AgesGone(tt, after) == {tt[i].age : i \in {j \in 1..Len(tt) : TTIndex(after, tt[j].k) = 0}}
\* the store of a node enters the log: the record now filed under the key,
\* the window the node was entered with, its depth and path, the age, whether
\* the deadline had passed below the node, and what the store evicted
LogStore(e, before, zobrist_key, depth, alpha, beta, best_value) ==
    IF ~e.logging THEN e
    ELSE
    [e EXCEPT !.stores = Append(@,
        [record |-> e.tt[TTIndex(e.tt, zobrist_key)], path |-> e.board.moves,
         depth |-> depth, alpha |-> alpha, beta |-> beta, best_value |-> best_value,
         age |-> e.age, expired |-> e.expired, evicted |-> AgesGone(before.tt, e.tt),
         call |-> CallOf(e)])]

\* a store that classifies the value against the alpha the move loop raised
SearchStoreRaisedAlpha(done, zobrist_key, depth, alpha, beta) ==
    [value |-> done.best_value, move |-> done.best_move,
     e |-> LogStore(StoreTTEntry(done.e, zobrist_key, depth, done.best_value,
                                 NodeTypeOf(done.best_value, Max(alpha, done.best_value),
                                            beta),
                                 done.best_move),
                    done.e, zobrist_key, depth, alpha, beta, done.best_value)]

\* _search: the store and the return after the move loop
SearchStore(done, zobrist_key, depth, alpha, beta) ==
    [value |-> done.best_value, move |-> done.best_move,
     e |-> LogStore(StoreTTEntry(done.e, zobrist_key, depth, done.best_value,
                                 NodeTypeOf(done.best_value, alpha, beta), done.best_move),
                    done.e, zobrist_key, depth, alpha, beta, done.best_value)]

RECURSIVE AfterOrderMoves(_, _, _, _)
\* the engine after _order_moves scored moves[i..]: the coverage engine
\* pushes every move that gives check, other than the TT move, to look for
\* checkmate and pops it
AfterOrderMoves(e, moves, i, tt_move) ==
    IF e.type = "capture" \/ i > Len(moves) THEN e
    ELSE AfterOrderMoves(IF moves[i] # tt_move /\ GivesCheck(e.board.pos, moves[i])
                         THEN Popped(Pushed(e, moves[i]))
                         ELSE e,
                         moves, i + 1, tt_move)

\* _search: move generation, ordering and the move loop
SearchMoves(e, tt_move, depth, alpha, beta, ply) ==
    IF Len(LegalMoveSeq(e.board.pos)) = 0
    THEN [value |-> Evaluate(e, e.board.pos), move |-> None, e |-> e]
    ELSE SearchStore(
             SearchLoop(AfterOrderMoves(e, LegalMoveSeq(e.board.pos), 1, tt_move),
                        OrderMoves(e, e.board.pos, LegalMoveSeq(e.board.pos), ply, tt_move),
                        1, depth, alpha, beta, ply, -INF, None),
             ZobristKey(e.board.pos), depth, alpha, beta)

\* a node that returns on a null-move cutoff with the null move on the board
SearchAfterNullUnpopped(nr, tt_move, depth, alpha, beta, ply) ==
    IF -nr.value >= beta
    THEN [value |-> beta, move |-> None,
          e |-> LogNullBack(nr.e, -nr.value, depth, beta)]
    ELSE SearchMoves(LogNullBack(Popped(nr.e), -nr.value, depth, beta),
                     tt_move, depth, alpha, beta, ply)

\* _search: after the null-move search returned nr
SearchAfterNull(nr, tt_move, depth, alpha, beta, ply) ==
    IF -nr.value >= beta
    THEN [value |-> beta, move |-> None,
          e |-> LogNullBack(Popped(nr.e), -nr.value, depth, beta)]
    ELSE SearchMoves(LogNullBack(Popped(nr.e), -nr.value, depth, beta),
                     tt_move, depth, alpha, beta, ply)

\* a node whose null-move search may itself play a null move
SearchProbedNullAgain(e, probe, depth, alpha, beta, ply, do_null_move) ==
    IF probe.hit THEN [value |-> probe.value, move |-> probe.move, e |-> e]
    ELSE IF /\ do_null_move
            /\ depth >= 3
            /\ ~IsCheck(e.board.pos)
            /\ Evaluate(e, e.board.pos) >= beta
    THEN SearchAfterNull(Search(Pushed(LogNull(e, depth, beta, do_null_move), "null"),
                                depth - 3, -beta, -beta + 1, ply + 1, TRUE),
                         probe.move, depth, alpha, beta, ply)
    ELSE SearchMoves(e, probe.move, depth, alpha, beta, ply)

\* _search: after the transposition table was probed
SearchProbed(e, probe, depth, alpha, beta, ply, do_null_move) ==
    IF probe.hit THEN [value |-> probe.value, move |-> probe.move, e |-> e]
    ELSE IF /\ do_null_move
            /\ depth >= 3
            /\ ~IsCheck(e.board.pos)
            /\ Evaluate(e, e.board.pos) >= beta
    THEN SearchAfterNull(Search(Pushed(LogNull(e, depth, beta, do_null_move), "null"),
                                depth - 3, -beta, -beta + 1, ply + 1, FALSE),
                         probe.move, depth, alpha, beta, ply)
    ELSE SearchMoves(e, probe.move, depth, alpha, beta, ply)

\* _search at depth <= 0: the quiescence value, no move
SearchLeaf(q) == [value |-> q.value, move |-> None, e |-> q.e]

\* a node that looks for the end of the game before it looks at the clock
SearchNodeTerminalFirst(e, up, depth, alpha, beta, ply, do_null_move) ==
    IF BoardIsGameOver(e.board)
    THEN [value |-> IF IsCheckmate(e.board.pos) THEN -MATE_SCORE + ply ELSE 0,
          move |-> None, e |-> e]
    ELSE IF up THEN [value |-> Evaluate(e, e.board.pos), move |-> None, e |-> e]
    ELSE IF depth <= 0
    THEN SearchLeaf(QuiescenceSearch(e, alpha, beta, 0))
    ELSE SearchProbed([e EXCEPT !.nodes_searched = @ + 1],
                      ProbeTT(e, ZobristKey(e.board.pos), depth, alpha, beta),
                      depth, alpha, beta, ply, do_null_move)

\* _search after its _is_time_up call (up is what the call said)
SearchNode(e, up, depth, alpha, beta, ply, do_null_move) ==
    IF up THEN [value |-> Evaluate(e, e.board.pos), move |-> None, e |-> e]
    ELSE IF BoardIsGameOver(e.board)
    THEN [value |-> IF IsCheckmate(e.board.pos) THEN -MATE_SCORE + ply ELSE 0,
          move |-> None, e |-> e]
    ELSE IF depth <= 0
    THEN SearchLeaf(QuiescenceSearch(e, alpha, beta, 0))
    ELSE SearchProbed([e EXCEPT !.nodes_searched = @ + 1],
                      ProbeTT(e, ZobristKey(e.board.pos), depth, alpha, beta),
                      depth, alpha, beta, ply, do_null_move)

\* _search
Search(e0, depth, alpha, beta, ply, do_null_move) ==
    SearchNode(AfterTimeCheck(Entered(e0, depth, alpha, beta, ply, do_null_move)),
               IsTimeUp(e0), depth, alpha, beta, ply, do_null_move)

\* the move loop after a move was scored and popped: best move, alpha, cutoff
SearchCutoff(popped, value, moves, i, depth, alpha, beta, ply, best_value, best_move) ==
    IF Max(value, alpha) >= beta
    THEN [e |-> UpdateTables(LogCutoff(popped, moves[i], depth, ply), moves[i], depth, ply),
          best_value |-> Max(value, best_value),
          best_move |-> IF value > best_value THEN moves[i] ELSE best_move]
    ELSE SearchLoop(popped, moves, i + 1, depth, Max(value, alpha), beta, ply,
                    Max(value, best_value),
                    IF value > best_value THEN moves[i] ELSE best_move)

\* the move loop after the last search of a move returned r: value = -value,
\* board.pop()
SearchScored(r, moves, i, depth, alpha, beta, ply, best_value, best_move) ==
    SearchCutoff(Popped(r.e), -r.value, moves, i, depth, alpha, beta, ply,
                 best_value, best_move)

\* the move loop after the first search of a move returned r1: the re-search
\* of a later move whose null-window value falls inside the window
SearchTried(r1, moves, i, depth, alpha, beta, ply, best_value, best_move) ==
    SearchScored(IF i > 1 /\ alpha < -r1.value /\ -r1.value < beta
                 THEN Search(r1.e, depth - 1, -beta, -alpha, ply + 1, TRUE)
                 ELSE r1,
                 moves, i, depth, alpha, beta, ply, best_value, best_move)

\* the loop over the ordered moves of a node (i = 1 is the first move)
SearchLoop(e, moves, i, depth, alpha, beta, ply, best_value, best_move) ==
    IF i > Len(moves)
    THEN [e |-> e, best_value |-> best_value, best_move |-> best_move]
    ELSE SearchTried(IF i = 1
                     THEN Search(Pushed(e, moves[i]), depth - 1, -beta, -alpha, ply + 1, TRUE)
                     ELSE Search(Pushed(e, moves[i]), depth - 1, -alpha - 1, -alpha,
                                 ply + 1, TRUE),
                     moves, i, depth, alpha, beta, ply, best_value, best_move)

(***************************************************************************)
(* get_best_move: iterative deepening.  clock is the model's answer to     *)
(* what time.time() will show against the deadline of this search.  The    *)
(* result carries the lines printed and, for each iteration run, what it   *)
(* returned and whether the deadline was met inside it.                    *)
(***************************************************************************)
InfoDepth(depth, value, move) ==
    [k |-> "info depth", depth |-> depth, score |-> value, move |-> move]
InfoString == [k |-> "info string", depth |-> 0, score |-> 0, move |-> None]
BestMoveLine(move) ==
    [k |-> "bestmove", depth |-> 0, score |-> 0, move |-> move]
PlainLine(text) == [k |-> text, depth |-> 0, score |-> 0, move |-> None]

RECURSIVE Deepen(_, _, _, _, _)

\* a search that prints its summary before the lines of the iterations
FinishSummaryFirst(e, best_move, out, iters) ==
    [move |-> best_move, e |-> e, out |-> <<InfoString>> \o out, iters |-> iters]

\* after the loop: the closing info string and the return value
Finish(e, best_move, out, iters) ==
    [move |-> best_move, e |-> e, out |-> Append(out, InfoString), iters |-> iters]

\* one iteration from the return of _search (r) to the second _is_time_up call
Deepened(r, depth, bm, out, iters) ==
    IF IsTimeUp(r.e) THEN Finish(AfterTimeCheck(r.e), bm, out, iters)
    ELSE Deepen(AfterTimeCheck(r.e), depth + 1, bm, out, iters)

\* one iteration after _search returned r: best_move and the info line when
\* a move came back
Iterated(r, depth, best_move, out, iters) ==
    Deepened(r, depth,
             IF r.move # None THEN r.move ELSE best_move,
             IF r.move # None THEN Append(out, InfoDepth(depth, r.value, r.move)) ELSE out,
             Append(iters, [depth |-> depth, move |-> r.move, before |-> best_move,
                            expired |-> r.e.expired]))

\* for depth in range(1, self.max_depth + 1)
Deepen(e0, depth, best_move, out, iters) ==
    IF depth > e0.max_depth THEN Finish(e0, best_move, out, iters)
    ELSE IF IsTimeUp(e0) THEN Finish(AfterTimeCheck(e0), best_move, out, iters)
    ELSE Iterated(Search(AfterTimeCheck(e0), depth, -INF, INF, 0, TRUE),
                  depth, best_move, out, iters)

\* ChessEngineTemplate.get_best_move / CoverageOpponent.get_best_move
GetBestMoveBase(e, clock) ==
    IF BoardIsGameOver(e.board)
    THEN [move |-> None, e |-> ClearLogs(e), out |-> <<>>, iters |-> <<>>]
    ELSE Deepen([ClearLogs(e) EXCEPT !.clock = clock, !.expired = FALSE,
                                     !.nodes_searched = 0, !.age = @ + 1],
                1, None, <<>>, <<>>)

\* CaptureOpponent.get_best_move
GetBestMove(e, clock) ==
    IF e.type = "capture"
    THEN GetBestMoveBase(
             IF e.board.pos.fullmove = 1 /\ e.board.pos.turn = "w"
             THEN [e EXCEPT !.starting_material = CalculateTotalMaterial(e.board.pos)]
             ELSE e,
             clock)
    ELSE GetBestMoveBase(e, clock)

(***************************************************************************)
(* OpponentEngine.get_move.  The opening book (a JSON file) maps the piece  *)
(* placement of a position, its FEN without the side to move, to the moves *)
(* played from it in the games the book was made from; the external engine *)
(* either was started or not, and its play either answers or raises.  The  *)
(* operators give the set of values a call may return.                     *)
(***************************************************************************)
OpponentTypes ==
    {"opening_only_random", "random_only", "elo_400", "opening_plus_elo_800",
     "opening_plus_elo_1200"}
UsesOpeningBook(t) ==
    t \in {"opening_only_random", "opening_plus_elo_800", "opening_plus_elo_1200"}
UsesStockfish(t) == t \in {"elo_400", "opening_plus_elo_800", "opening_plus_elo_1200"}

\* board.fen().split(' ')[0]
Placement(p) == <<p.kind, p.h>>
\* no book, and a book of the moves White played
Books ==
    {<<>>, (<<"n", StartH>> :> {"q1", "x2"}) @@ (<<"k", 1>> :> {"q1"})}

\* _get_opening_move
GetOpeningMove(book, b) ==
    IF Placement(b.pos) \in DOMAIN book THEN book[Placement(b.pos)] ELSE {None}
\* _get_stockfish_move: result.move, or None when configure or play raises
GetStockfishMove(b) == LegalMoves(b.pos) \cup {None}
\* _get_random_move
GetRandomMove(b) == IF LegalMoves(b.pos) = {} THEN {None} ELSE LegalMoves(b.pos)

\* get_move after the book was asked: opening holds what it may have said
GetMoveAfterBook(t, opening, sf, b) ==
    (opening \ {None})
    \cup (IF None \notin opening THEN {}
          ELSE IF UsesStockfish(t) /\ sf THEN GetStockfishMove(b)
          ELSE GetRandomMove(b))
\* OpponentEngine.get_move
GetMove(t, book, sf, b) ==
    IF BoardIsGameOver(b) THEN {None}
    ELSE GetMoveAfterBook(t, IF UsesOpeningBook(t) THEN GetOpeningMove(book, b) ELSE {None},
                          sf, b)

(***************************************************************************)
(* The input lines a front end may read, split into tokens (line.split()). *)
(***************************************************************************)
Lines ==
    { <<"uci">>, <<"isready">>, <<"ucinewgame">>, <<"stop">>, <<"quit">>,
      <<"xyzzy">>,
      <<"setoption", "name", "MaxDepth", "value", "2">>,
      <<"setoption", "name", "MaxDepth", "value", "0">>,
      <<"setoption", "name", "MaxDepth", "value", "25">>,
      <<"setoption", "name", "MaxDepth", "value", "abc">>,
      <<"setoption", "name", "MaxDepth", "2">>,
      <<"setoption", "name", "Hash", "value", "2">>,
      <<"setoption", "name", "TTSize", "value", "2">>,
      <<"setoption", "name", "TTSize", "value", "100">>,
      <<"setoption", "name", "TTSize", "value", "2000">>,
      <<"position", "startpos">>,
      <<"position", "startpos", "moves", "q1", "x2">>,
      <<"position", "startpos", "moves", "x3", "x3">>,
      <<"position", "startpos", "moves", "q1", "zz">>,
      <<"position", "fen", "n2", "b">>,
      <<"position", "fen", "n2", "b", "moves", "q1">>,
      <<"position", "fen", "n2", "b", "moves", "q1", "zz">>,
      <<"position", "fen", "bad">>,
      <<"position", "fen", "i2", "w">>,
      <<"position", "fen", "n0", "b">>,
      <<"position", "fen", "s0", "w">>,
      <<"go">>,
      <<"go", "depth", "2">>,
      <<"go", "depth", "0">>,
      <<"go", "depth", "25">>,
      <<"go", "wtime", "100", "btime", "100">>,
      <<"go", "wtime">>,
      <<"go", "wtime", "abc", "btime", "abc">>,
      <<"go", "depth", "1", "wtime", "abc", "btime", "abc">> }

(***************************************************************************)
(* _handle_position of UCICoverageEngine and UCIEngineInterface, and the   *)
(* position branch of UCIRandomEngine.run: the three are the same code.    *)
(* The result is the board afterwards and whether an exception left the    *)
(* handler.  asserts says how python-chess treats the push of a move that  *)
(* is not legal: its assertion fails after the move stack was extended, or *)
(* the move is applied as it stands.                                       *)
(***************************************************************************)
\* Python index of the first "moves" token at or after parts[2], else len(parts)
MovesTokenIndex(parts) ==
    IF \E i \in 2..(Len(parts) - 1) : parts[i + 1] = "moves"
    THEN CHOOSE i \in 2..(Len(parts) - 1) :
            /\ parts[i + 1] = "moves"
            /\ \A j \in 2..(i - 1) : parts[j + 1] # "moves"
    ELSE Len(parts)

\* the board after push stopped at its assertion
PushInterrupted(b, m) ==
    [pos |-> [b.pos EXCEPT !.fullmove = IF b.pos.turn = "b" THEN @ + 1 ELSE @],
     moves |-> Append(b.moves, m),
     undo |-> Append(b.undo, b.pos)]

RECURSIVE PushAll(_, _, _, _)
PushAll(b, moves, j, asserts) ==
    IF j > Len(moves) THEN [board |-> b, raised |-> FALSE]
    ELSE IF moves[j] \notin MoveNames THEN [board |-> b, raised |-> TRUE]
    ELSE IF moves[j] \notin LegalMoves(b.pos) /\ asserts
         THEN [board |-> PushInterrupted(b, moves[j]), raised |-> TRUE]
    ELSE PushAll(Push(b, moves[j]), moves, j + 1, asserts)

HandlePositionSync(b, parts, asserts) ==
    IF Len(parts) < 2 THEN [board |-> b, raised |-> TRUE]
    ELSE
    LET i == MovesTokenIndex(parts)
        fen == SubSeq(parts, 3, i)
        moves_idx ==
            IF parts[2] = "startpos"
            THEN IF Len(parts) > 3 /\ parts[3] = "moves" THEN 3 ELSE 0
            ELSE IF i < Len(parts) - 1 /\ parts[i + 1] = "moves" THEN i + 1 ELSE 0
        moves == IF moves_idx # 0 THEN SubSeq(parts, moves_idx + 1, Len(parts))
                 ELSE <<>>
    IN  IF parts[2] = "startpos" THEN PushAll(NewBoard(StartPos), moves, 1, asserts)
        ELSE IF ~FenValid(fen) THEN [board |-> b, raised |-> TRUE]
        ELSE PushAll(NewBoard(FenTable[fen]), moves, 1, asserts)

(***************************************************************************)
(* _handle_go of UCICoverageEngine and UCIEngineInterface: the loop over   *)
(* the tokens.  Times are kept in milliseconds.                            *)
(***************************************************************************)
NewGoArgs(max_depth) ==
    [time_left |-> 0, increment |-> 0, has_override |-> FALSE,
     depth_override |-> 0, original_depth |-> 0, max_depth |-> max_depth,
     raised |-> FALSE]

RECURSIVE ParseGo(_, _, _, _)
ParseGo(parts, i, turn, a) ==
    IF i > Len(parts) \/ a.raised THEN a
    ELSE
    LET part == parts[i]
        has_value == i + 1 <= Len(parts) /\ IsNumber(parts[i + 1])
        value == IntTable[parts[i + 1]]
        fail == [a EXCEPT !.raised = TRUE]
    IN  IF part = "wtime" /\ turn = "w"
        THEN ParseGo(parts, i + 1, turn,
                     IF has_value THEN [a EXCEPT !.time_left = value] ELSE fail)
        ELSE IF part = "btime" /\ turn = "b"
        THEN ParseGo(parts, i + 1, turn,
                     IF has_value THEN [a EXCEPT !.time_left = value] ELSE fail)
        ELSE IF part = "winc" /\ turn = "w"
        THEN ParseGo(parts, i + 1, turn,
                     IF has_value THEN [a EXCEPT !.increment = value] ELSE fail)
        ELSE IF part = "binc" /\ turn = "b"
        THEN ParseGo(parts, i + 1, turn,
                     IF has_value THEN [a EXCEPT !.increment = value] ELSE fail)
        ELSE IF part = "depth"
        THEN ParseGo(parts, i + 1, turn,
                     IF has_value
                     THEN [a EXCEPT !.has_override = TRUE,
                                    !.depth_override = value,
                                    !.original_depth = a.max_depth,
                                    !.max_depth = value,
                                    !.time_left = 0]
                     ELSE fail)
        ELSE ParseGo(parts, i + 1, turn, a)

\* a time limit whose bands include their lower ends
CalculateTimeLimitInclusive(time_left, increment) ==
    IF time_left <= 0 THEN 0
    ELSE IF time_left >= 1800000
         THEN Min(15 * time_left + 480 * increment, 600 * 30000)
    ELSE IF time_left >= 600000
         THEN Min(20 * time_left + 480 * increment, 600 * 20000)
    ELSE IF time_left >= 60000
         THEN Min(30 * time_left + 480 * increment, 600 * 10000)
    ELSE Min(60 * time_left + 480 * increment, 600 * 5000)

\* _calculate_time_limit, in units of 1/600 ms (every quotient is exact)
CalculateTimeLimit(time_left, increment) ==
    IF time_left <= 0 THEN 0
    ELSE IF time_left > 1800000
         THEN Min(15 * time_left + 480 * increment, 600 * 30000)
    ELSE IF time_left > 600000
         THEN Min(20 * time_left + 480 * increment, 600 * 20000)
    ELSE IF time_left > 60000
         THEN Min(30 * time_left + 480 * increment, 600 * 10000)
    ELSE Min(60 * time_left + 480 * increment, 600 * 5000)

\* _is_time_up when time.time() - self.start_time is elapsed (same units)
IsTimeUpAfter(time_limit, elapsed) ==
    IF time_limit <= 0 THEN FALSE ELSE elapsed >= time_limit

\* what the clock may show during a search with this time limit
Clocks(time_limit) ==
    IF time_limit <= 0 THEN {NoDeadline} ELSE {NoDeadline} \cup (0..MaxClock)

\* whether _handle_go searches to a depth: if depth_override
ByDepth(a) == a.has_override /\ a.depth_override # 0

\* _handle_go after get_best_move returned r: max_depth restored after a
\* search to a depth, and the bestmove line
GoSearched(r, a) ==
    [e |-> IF ByDepth(a) THEN [r.e EXCEPT !.max_depth = a.original_depth] ELSE r.e,
     out |-> Append(r.out, BestMoveLine(IF r.move # None THEN r.move ELSE "0000")),
     raised |-> FALSE]

\* _handle_go after the loop over the tokens (a is what it left)
GoParsed(e, a, clock) ==
    IF a.raised
    THEN [e |-> [e EXCEPT !.max_depth = a.max_depth], out |-> <<>>, raised |-> TRUE]
    ELSE GoSearched(GetBestMove([e EXCEPT !.max_depth = a.max_depth],
                                IF ByDepth(a) THEN NoDeadline ELSE clock),
                    a)

\* _handle_go: the engine afterwards, the lines printed, whether an exception
\* left the handler
HandleGoSync(e, parts, clock) ==
    GoParsed(e, ParseGo(parts, 1, e.board.pos.turn, NewGoArgs(e.max_depth)), clock)

\* the time limit a search runs under after the tokens were parsed
TimeLimitOf(a) ==
    IF a.raised \/ ByDepth(a) THEN 0
    ELSE CalculateTimeLimit(a.time_left, a.increment)
\* the time limit HandleGoSync's search runs under
GoTimeLimit(e, parts) ==
    TimeLimitOf(ParseGo(parts, 1, e.board.pos.turn, NewGoArgs(e.max_depth)))

(***************************************************************************)
(* The front ends.                                                         *)
(*   frontend   which program runs: "coverage" (UCICoverageEngine),        *)
(*              "capture" (UCIEngineInterface with CaptureOpponent),       *)
(*              "random" (UCIRandomEngine), "threaded" (UCIOpponentEngine) *)
(*   engine     self.engine of the coverage and capture front ends         *)
(*   board      self.board of the random and threaded front ends           *)
(*   out        the lines printed so far, each with the number of the      *)
(*              input line being handled when it was printed               *)
(*   nread      input lines read so far                                    *)
(*   alive      the command loop has not ended                             *)
(*   last       the line handled last, with the board and max_depth as     *)
(*              they were before it                                        *)
(*   searching, has_engine, workers, inputpc   the threaded front end:     *)
(*              self.searching, whether self.engine is set, the search     *)
(*              threads started, and where the input thread is             *)
(***************************************************************************)
VARIABLES frontend, engine, board, out, nread, alive, last,
          searching, has_engine, workers, inputpc

\* An engine object called directly, without a front end:
\*   eng     the engine
\*   res     what the last call on it was, the engine before the call and
\*           what the call returned
\*   calls   calls made so far
VARIABLES eng, res, calls

directVars == <<eng, res, calls>>
NoCall == [op |-> "none"]
\* no engine is being called directly
DirectIdle == eng = NewEngine("none", 0, 0) /\ res = NoCall /\ calls = 0

uciVars == <<frontend, engine, board, out, nread, alive, last,
             searching, has_engine, workers, inputpc>>

SyncEngines == {"coverage", "capture"}
Frontends == SyncEngines \cup {"random", "threaded"}

\* the engine each front end is started with (capture: main() passes
\* max_depth=2, tt_size_mb=256)
InitialEngine(fe) ==
    IF fe = "capture" THEN NewEngine("capture", 2, 256)
    ELSE IF fe = "coverage" THEN NewEngine("coverage", DefaultMaxDepth, DefaultTTSizeMB)
    ELSE NewEngine("none", 0, 0)

\* the board the front end holds
CurBoard == IF frontend \in SyncEngines THEN engine.board ELSE board

Emit(n, stream, line) ==
    [cmd |-> n, stream |-> stream, k |-> line.k, depth |-> line.depth,
     score |-> line.score, move |-> line.move]
EmitAll(n, lines) == [i \in 1..Len(lines) |-> Emit(n, "out", lines[i])]
\* print(f"info string Error: {e}", file=sys.stderr)
ErrorLine(n) == Emit(n, "err", InfoString)

\* which branch of run() a line takes
HandlerOf(fe, parts) ==
    IF fe = "threaded"
    THEN IF parts[1] \in {"uci", "isready", "ucinewgame", "position", "go",
                          "stop", "quit"}
         THEN parts[1] ELSE "ignored"
    ELSE IF parts = <<"uci">> THEN "uci"
    ELSE IF parts = <<"isready">> THEN "isready"
    ELSE IF parts = <<"ucinewgame">> THEN "ucinewgame"
    ELSE IF fe # "random" /\ parts[1] = "setoption" THEN "setoption"
    ELSE IF parts[1] = "position" THEN "position"
    ELSE IF parts[1] = "go" THEN "go"
    ELSE IF parts = <<"quit">> THEN "quit"
    ELSE "ignored"

\* reading the next line: the loop is running, the input thread is not
\* blocked in a join, and input is left
Reads(parts, handler) ==
    /\ alive
    /\ inputpc = "read"
    /\ nread < MaxLines
    /\ parts \in Lines
    /\ HandlerOf(frontend, parts) = handler
    /\ nread' = nread + 1
    /\ last' = [line |-> parts, board |-> CurBoard, max_depth |-> engine.max_depth,
                engine |-> engine]

UciInit ==
    /\ frontend \in Frontends
    /\ engine = InitialEngine(frontend)
    /\ board = NewBoard(StartPos)
    /\ out = <<>>
    /\ nread = 0
    /\ alive = TRUE
    /\ last = [line |-> <<>>, board |-> NewBoard(StartPos),
               max_depth |-> engine.max_depth, engine |-> engine]
    /\ searching = FALSE
    /\ has_engine = FALSE
    /\ workers = <<>>
    /\ inputpc = "read"
    /\ DirectIdle

\* uci
UciLines(fe) ==
    IF fe \in SyncEngines
    THEN <<PlainLine("id name"), PlainLine("id author"),
           PlainLine("option name MaxDepth"), PlainLine("option name TTSize"),
           PlainLine("uciok")>>
    ELSE IF fe = "random"
    THEN <<PlainLine("id name"), PlainLine("id author"), PlainLine("uciok")>>
    ELSE <<PlainLine("id name"), PlainLine("id author"),
           PlainLine("option name OwnBook"), PlainLine("uciok")>>
Uci ==
    \E parts \in Lines :
        /\ Reads(parts, "uci")
        /\ out' = out \o EmitAll(nread', UciLines(frontend))
        /\ UNCHANGED <<eng, res, calls, frontend, engine, board, alive, searching, has_engine,
                       workers, inputpc>>

\* isready; in the threaded front end handle_isready creates the opponent
\* engine when there is none (created says whether create_opponent returned)
IsReady ==
    \E parts \in Lines, created \in BOOLEAN :
        /\ Reads(parts, "isready")
        /\ IF frontend = "threaded" /\ ~has_engine
           THEN IF created
                THEN /\ has_engine' = TRUE
                     /\ out' = Append(out, Emit(nread', "out", PlainLine("readyok")))
                ELSE /\ has_engine' = FALSE
                     /\ out' = out \o EmitAll(nread', <<InfoString, PlainLine("readyok")>>)
           ELSE /\ created
                /\ has_engine' = has_engine
                /\ out' = Append(out, Emit(nread', "out", PlainLine("readyok")))
        /\ UNCHANGED <<eng, res, calls, frontend, engine, board, alive, searching, workers, inputpc>>

\* a new game that sets up the board and keeps the engine object
UciNewGameKeepsEngine ==
    \E parts \in Lines :
        /\ Reads(parts, "ucinewgame")
        /\ engine' = [engine EXCEPT !.board = NewBoard(StartPos)]
        /\ board' = NewBoard(StartPos)
        /\ UNCHANGED <<eng, res, calls, frontend, out, alive, searching, has_engine, workers, inputpc>>

\* ucinewgame: the search front ends build a new engine that keeps max_depth
\* (coverage: tt_size_mb=128; capture: the constructor's default, 56); the
\* others reset the board
UciNewGame ==
    \E parts \in Lines :
        /\ Reads(parts, "ucinewgame")
        /\ engine' = IF frontend = "coverage"
                     THEN NewEngine("coverage", engine.max_depth, 128)
                     ELSE IF frontend = "capture"
                     THEN NewEngine("capture", engine.max_depth, 56)
                     ELSE engine
        /\ board' = NewBoard(StartPos)
        /\ UNCHANGED <<eng, res, calls, frontend, out, alive, searching, has_engine, workers, inputpc>>

\* a setoption that takes MaxDepth as it is given
HandleSetOptionUnclamped(e, parts) ==
    IF Len(parts) >= 5 /\ parts[2] = "name" /\ parts[4] = "value"
       /\ parts[3] = "MaxDepth" /\ IsNumber(parts[5])
    THEN [e |-> [e EXCEPT !.max_depth = IntTable[parts[5]]], raised |-> FALSE]
    ELSE [e |-> e, raised |-> FALSE]

\* _handle_setoption (coverage and capture front ends)
HandleSetOption(e, parts) ==
    IF Len(parts) >= 5 /\ parts[2] = "name" /\ parts[4] = "value"
    THEN LET name == parts[3]
             value == parts[5]
         IN  IF name = "MaxDepth"
             THEN IF IsNumber(value)
                  THEN [e |-> [e EXCEPT !.max_depth = Max(1, Min(20, IntTable[value]))],
                        raised |-> FALSE]
                  ELSE [e |-> e, raised |-> TRUE]
             ELSE IF name = "TTSize"
             THEN IF IsNumber(value)
                  THEN [e |-> NewEngine(e.type, e.max_depth,
                                        Max(16, Min(1024, IntTable[value]))),
                        raised |-> FALSE]
                  ELSE [e |-> e, raised |-> TRUE]
             ELSE [e |-> e, raised |-> FALSE]
    ELSE [e |-> e, raised |-> FALSE]

SetOption ==
    \E parts \in Lines :
        /\ Reads(parts, "setoption")
        /\ LET r == HandleSetOption(engine, parts)
           IN  /\ engine' = r.e
               /\ out' = IF r.raised THEN Append(out, ErrorLine(nread')) ELSE out
        /\ UNCHANGED <<eng, res, calls, frontend, board, alive, searching, has_engine, workers, inputpc>>

\* UCIOpponentEngine.handle_position: the board afterwards and the lines sent
RECURSIVE PushLegal(_, _, _)
PushLegal(b, moves, j) ==
    IF j > Len(moves) THEN [board |-> b, out |-> <<>>]
    ELSE IF moves[j] \notin MoveNames
         THEN [board |-> b, out |-> <<PlainLine("info string Invalid move format")>>]
    ELSE IF moves[j] \in LegalMoves(b.pos) THEN PushLegal(Push(b, moves[j]), moves, j + 1)
    ELSE [board |-> b, out |-> <<PlainLine("info string Illegal move")>>]

HandlePositionThreaded(b, parts) ==
    IF Len(parts) < 2 THEN [board |-> b, out |-> <<>>]
    ELSE
    LET found == \E i \in 2..(Len(parts) - 1) : parts[i + 1] = "moves"
        \* moves_start of the fen branch (a Python index)
        fen_start == IF found THEN MovesTokenIndex(parts) + 1 ELSE Len(parts)
        fen == IF found THEN SubSeq(parts, 3, fen_start - 1) ELSE SubSeq(parts, 3, Len(parts))
        moves_start == IF parts[2] = "startpos" THEN 2 ELSE fen_start
        moves == IF moves_start < Len(parts) /\ parts[moves_start] = "moves"
                 THEN SubSeq(parts, moves_start + 1, Len(parts))
                 ELSE <<>>
    IN  IF parts[2] = "startpos" THEN PushLegal(NewBoard(StartPos), moves, 1)
        ELSE IF parts[2] = "fen"
        THEN IF FenValid(fen) THEN PushLegal(NewBoard(FenTable[fen]), moves, 1)
             ELSE [board |-> b, out |-> <<PlainLine("info string Invalid FEN")>>]
        ELSE [board |-> b, out |-> <<>>]

Position ==
    \E parts \in Lines, asserts \in BOOLEAN :
        /\ Reads(parts, "position")
        /\ IF frontend = "threaded"
           THEN LET r == HandlePositionThreaded(board, parts)
                IN  /\ asserts
                    /\ board' = r.board
                    /\ engine' = engine
                    /\ out' = out \o EmitAll(nread', r.out)
           ELSE LET r == HandlePositionSync(CurBoard, parts, asserts)
                IN  /\ IF frontend = "random"
                       THEN board' = r.board /\ engine' = engine
                       ELSE board' = board /\ engine' = [engine EXCEPT !.board = r.board]
                    /\ out' = IF r.raised THEN Append(out, ErrorLine(nread')) ELSE out
        /\ UNCHANGED <<eng, res, calls, frontend, alive, searching, has_engine, workers, inputpc>>

\* UCIRandomEngine.get_random_move
RandomMoves(b) == IF LegalMoves(b.pos) = {} THEN {None} ELSE LegalMoves(b.pos)

\* run() after _handle_go returned or raised (r is how it ended)
GoReturns(r) ==
    /\ engine' = r.e
    /\ out' = IF r.raised THEN Append(out, ErrorLine(nread'))
              ELSE out \o EmitAll(nread', r.out)

\* go in the coverage, capture and random front ends: the search runs inside
\* the handler
GoSync ==
    \E parts \in Lines, clock \in {NoDeadline} \cup (0..MaxClock), mv \in MoveNames \cup {None} :
        /\ frontend # "threaded"
        /\ Reads(parts, "go")
        /\ IF frontend = "random"
           THEN /\ clock = NoDeadline
                /\ mv \in RandomMoves(board)
                /\ out' = Append(out, Emit(nread', "out",
                                 BestMoveLine(IF mv # None THEN mv ELSE "0000")))
                /\ engine' = engine
           ELSE /\ mv = None
                /\ clock \in Clocks(GoTimeLimit(engine, parts))
                /\ GoReturns(HandleGoSync(engine, parts, clock))
        /\ UNCHANGED <<eng, res, calls, frontend, board, alive, searching, has_engine, workers, inputpc>>

\* handle_go of the threaded front end
\* a worker thread started for input line n; given is the position on the
\* board when the go was read, pos the position get_move was called with
NewWorker(n) ==
    [pc |-> "init", move |-> None, cmd |-> n, pos |-> StartPos, given |-> board.pos]
GoThreaded ==
    \E parts \in Lines :
        /\ frontend = "threaded"
        /\ Reads(parts, "go")
        /\ IF searching
           THEN UNCHANGED <<searching, workers>>
           ELSE /\ searching' = TRUE
                /\ workers' = Append(workers, NewWorker(nread'))
        /\ UNCHANGED <<eng, res, calls, frontend, engine, board, out, alive, has_engine, inputpc>>

\* self.search_thread and self.search_thread.is_alive()
ThreadAlive == Len(workers) > 0 /\ workers[Len(workers)].pc # "done"

\* handle_stop
Stop ==
    \E parts \in Lines :
        /\ Reads(parts, "stop")
        /\ searching' = FALSE
        /\ inputpc' = IF ThreadAlive THEN "join stop" ELSE "read"
        /\ UNCHANGED <<eng, res, calls, frontend, engine, board, out, alive, has_engine, workers>>

\* quit: the loop of a synchronous front end breaks; handle_quit of the
\* threaded one clears searching, joins the worker and exits
Quit ==
    \E parts \in Lines :
        /\ Reads(parts, "quit")
        /\ IF frontend = "threaded"
           THEN /\ searching' = FALSE
                /\ inputpc' = IF ThreadAlive THEN "join quit" ELSE "read"
                /\ alive' = ThreadAlive
           ELSE /\ alive' = FALSE
                /\ UNCHANGED <<searching, inputpc>>
        /\ UNCHANGED <<eng, res, calls, frontend, engine, board, out, has_engine, workers>>

\* search_thread.join(timeout=1.0) returns: the worker ended or a second passed
JoinReturn ==
    /\ inputpc \in {"join stop", "join quit"}
    /\ inputpc' = "read"
    /\ alive' = (inputpc = "join stop")
    /\ UNCHANGED <<eng, res, calls, frontend, engine, board, out, nread, last, searching,
                   has_engine, workers>>

\* a line no branch of run() matches
Ignored ==
    \E parts \in Lines :
        /\ Reads(parts, "ignored")
        /\ UNCHANGED <<eng, res, calls, frontend, engine, board, out, alive, searching, has_engine,
                       workers, inputpc>>

(***************************************************************************)
(* search_worker of the threaded front end, one step per access to the     *)
(* state it shares with the input thread.                                  *)
(***************************************************************************)
\* what get_move may return in the worker, whatever the opponent type, the
\* book and the external engine are
GetMoveResults(b) ==
    UNION {GetMove(t, book, sf, b) : t \in OpponentTypes, book \in Books, sf \in BOOLEAN}

WorkerAt(w, pc) == w \in 1..Len(workers) /\ workers[w].pc = pc
Send(w, lines) == out \o EmitAll(workers[w].cmd, lines)

\* if not self.engine: self.engine = create_opponent(...)
WorkerInit(w) ==
    /\ WorkerAt(w, "init")
    /\ \E created \in BOOLEAN :
          /\ has_engine => created
          /\ has_engine' = created
          /\ workers' = [workers EXCEPT ![w].pc = IF created THEN "search" ELSE "except"]
    /\ UNCHANGED <<eng, res, calls, frontend, engine, board, out, nread, alive, last, searching, inputpc>>

\* move = self.engine.get_move(self.board)
WorkerGetMove(w) ==
    /\ WorkerAt(w, "search")
    /\ \E mv \in GetMoveResults(board) :
          workers' = [workers EXCEPT ![w].pc = "check", ![w].move = mv,
                                     ![w].pos = board.pos]
    /\ UNCHANGED <<eng, res, calls, frontend, engine, board, out, nread, alive, last, searching,
                   has_engine, inputpc>>

\* if move and self.searching: send bestmove; with no move the elif reads
\* self.searching at once
WorkerCheck(w) ==
    /\ WorkerAt(w, "check")
    /\ IF workers[w].move # None
       THEN IF searching
            THEN /\ out' = Send(w, <<BestMoveLine(workers[w].move)>>)
                 /\ workers' = [workers EXCEPT ![w].pc = "finally"]
            ELSE /\ out' = out
                 /\ workers' = [workers EXCEPT ![w].pc = "check2"]
       ELSE /\ out' = IF searching THEN Send(w, <<BestMoveLine("0000")>>) ELSE out
            /\ workers' = [workers EXCEPT ![w].pc = "finally"]
    /\ UNCHANGED <<eng, res, calls, frontend, engine, board, nread, alive, last, searching,
                   has_engine, inputpc>>

\* elif self.searching: send bestmove 0000 (the second read of the flag)
WorkerCheck2(w) ==
    /\ WorkerAt(w, "check2")
    /\ out' = IF searching THEN Send(w, <<BestMoveLine("0000")>>) ELSE out
    /\ workers' = [workers EXCEPT ![w].pc = "finally"]
    /\ UNCHANGED <<eng, res, calls, frontend, engine, board, nread, alive, last, searching,
                   has_engine, inputpc>>

\* except Exception: info string Search error, bestmove 0000
WorkerExcept(w) ==
    /\ WorkerAt(w, "except")
    /\ out' = Send(w, <<InfoString, BestMoveLine("0000")>>)
    /\ workers' = [workers EXCEPT ![w].pc = "finally"]
    /\ UNCHANGED <<eng, res, calls, frontend, engine, board, nread, alive, last, searching,
                   has_engine, inputpc>>

\* finally: self.searching = False
WorkerFinally(w) ==
    /\ WorkerAt(w, "finally")
    /\ searching' = FALSE
    /\ workers' = [workers EXCEPT ![w].pc = "done"]
    /\ UNCHANGED <<eng, res, calls, frontend, engine, board, out, nread, alive, last, has_engine,
                   inputpc>>

WorkerStep ==
    \E w \in 1..MaxLines :
        \/ WorkerInit(w)
        \/ WorkerGetMove(w)
        \/ WorkerCheck(w)
        \/ WorkerCheck2(w)
        \/ WorkerExcept(w)
        \/ WorkerFinally(w)

UciNext ==
    \/ Uci
    \/ IsReady
    \/ UciNewGame
    \/ SetOption
    \/ Position
    \/ GoSync
    \/ GoThreaded
    \/ Stop
    \/ Quit
    \/ JoinReturn
    \/ Ignored
    \/ WorkerStep

vars == <<frontend, engine, board, out, nread, alive, last, searching,
          has_engine, workers, inputpc, eng, res, calls>>

\* a front end reading up to MaxLines lines
Spec == UciInit /\ [][UciNext]_vars

(***************************************************************************)
(* get_best_move called directly on an engine whose board was set up, as   *)
(* _handle_go calls it, with the moves of a game pushed in between.        *)
(***************************************************************************)
\* no front end is running
UciIdle ==
    /\ frontend = "none"
    /\ engine = InitialEngine("none")
    /\ board = NewBoard(StartPos)
    /\ out = <<>>
    /\ nread = 0
    /\ alive = FALSE
    /\ last = [line |-> <<>>, board |-> NewBoard(StartPos), max_depth |-> 0,
               engine |-> InitialEngine("none")]
    /\ searching = FALSE
    /\ has_engine = FALSE
    /\ workers = <<>>
    /\ inputpc = "read"

\* the positions a search may start from
SearchPositions ==
    {[kind |-> "n", h |-> h, turn |-> t, fullmove |-> 1] : h \in 1..MaxSearchH, t \in Turns}

SearchInit ==
    /\ UciIdle
    /\ eng \in {[NewEngine(t, d, DefaultTTSizeMB) EXCEPT !.board = NewBoard(p)] :
                   t \in SyncEngines, d \in 1..MaxSearchDepth, p \in SearchPositions}
    /\ res = NoCall
    /\ calls = 0

\* get_best_move returned r
Returned(r, clock) ==
    /\ eng' = r.e
    /\ res' = [op |-> "get_best_move", before |-> eng, clock |-> clock,
               move |-> r.move, out |-> r.out, iters |-> r.iters]

CallGetBestMove ==
    \E clock \in {NoDeadline} \cup (0..MaxSearchClock) :
        /\ calls < MaxCalls
        /\ calls' = calls + 1
        /\ Returned(GetBestMove(eng, clock), clock)
        /\ UNCHANGED uciVars

\* self.engine.board.push(move) of _handle_position
PushMove ==
    \E m \in LegalMoves(eng.board.pos) :
        /\ eng' = Pushed(eng, m)
        /\ res' = [op |-> "push", before |-> eng, move |-> m]
        /\ UNCHANGED <<calls, uciVars>>

SearchNext ==
    \/ CallGetBestMove
    \/ PushMove

\* searches called directly on an engine
SpecSearch == SearchInit /\ [][SearchNext]_vars

(***************************************************************************)
(* _search called directly with the full window and no deadline, as        *)
(* get_best_move calls it for the root (ply 0) and as the move loop calls  *)
(* it for the first move of a node (ply > 0), on boards set up by pushing  *)
(* and popping moves.                                                      *)
(***************************************************************************)
DirectPositions ==
    {[kind |-> k, h |-> h, turn |-> t, fullmove |-> 1] :
        k \in {"n", "k"}, h \in 1..MaxDirectH, t \in Turns}

DirectInit ==
    /\ UciIdle
    /\ eng \in {[NewEngine(t, DefaultMaxDepth, DefaultTTSizeMB) EXCEPT !.board = NewBoard(p)] :
                   t \in SyncEngines, p \in DirectPositions}
    /\ res = NoCall
    /\ calls = 0

\* what the step before left in res, without the engine
Previous ==
    IF res.op = "search"
    THEN [op |-> "search", depth |-> res.depth, ply |-> res.ply, value |-> res.value,
          move |-> res.move]
    ELSE [op |-> res.op]

\* _search returned r
SearchReturned(r, depth, ply) ==
    /\ eng' = r.e
    /\ res' = [op |-> "search", before |-> eng, depth |-> depth, ply |-> ply,
               value |-> r.value, move |-> r.move, prev |-> Previous]

\* value, move = self._search(self.board, depth, -inf, inf, ply)
CallSearch ==
    \E depth \in 1..MaxSearchDepth, ply \in {0, MaxPly} :
        /\ calls < MaxSearches
        /\ calls' = calls + 1
        /\ SearchReturned(Search(ClearLogs(eng), depth, -INF, INF, ply, TRUE),
                          depth, ply)
        /\ UNCHANGED uciVars

\* board.push(move) between searches
DirectPush ==
    /\ calls < MaxSearches
    /\ Len(eng.board.moves) < MaxPushes
    /\ PushMove

\* board.pop() between searches
PopMove ==
    /\ calls < MaxSearches
    /\ Len(eng.board.moves) > 0
    /\ eng' = Popped(eng)
    /\ res' = [op |-> "pop", before |-> eng]
    /\ UNCHANGED <<calls, uciVars>>

RECURSIVE LegalSeqs(_, _)
\* the sequences of at most n moves, each legal where it is played
LegalSeqs(p, n) ==
    IF n = 0 THEN {<<>>}
    ELSE {<<>>} \cup UNION {{<<m>> \o seq : seq \in LegalSeqs(ApplyMove(p, m), n - 1)} :
                               m \in LegalMoves(p)}
RECURSIVE PushSeq(_, _, _)
\* for move in moves: board.push(move)
PushSeq(b, moves, j) ==
    IF j > Len(moves) THEN b ELSE PushSeq(Push(b, moves[j]), moves, j + 1)
RECURSIVE PopTimes(_, _)
\* board.pop(), n times
PopTimes(b, n) == IF n = 0 THEN b ELSE PopTimes(Pop(b), n - 1)

\* a sequence of moves is pushed and popped again, as a node of the search
\* does with the line below it; key and played are _get_zobrist_key of the
\* board before the sequence and after its last move
PlayAndUnmake ==
    \E moves \in LegalSeqs(eng.board.pos, MaxUnmade) \ {<<>>} :
        /\ calls < MaxSearches
        /\ eng' = [eng EXCEPT !.board = PopTimes(PushSeq(@, moves, 1), Len(moves))]
        /\ res' = [op |-> "unmake", before |-> eng, moves |-> moves,
                   key |-> ZobristKey(eng.board.pos),
                   played |-> ZobristKey(PushSeq(eng.board, moves, 1).pos)]
        /\ calls' = calls + 1
        /\ UNCHANGED uciVars

DirectNext ==
    \/ CallSearch
    \/ DirectPush
    \/ PopMove
    \/ PlayAndUnmake

\* _search called directly on an engine
SpecDirect == DirectInit /\ [][DirectNext]_vars

(***************************************************************************)
(* _store_tt_entry called directly, with the age advancing as it does at   *)
(* the start of every get_best_move.                                       *)
(***************************************************************************)
NodeTypes == {"EXACT", "LOWER_BOUND", "UPPER_BOUND"}
\* the keys of the positions stored
TTKeys == {ZobristKey([kind |-> "n", h |-> h, turn |-> "w", fullmove |-> 1]) : h \in 1..MaxKeys}
\* the arguments of a store
StoreArgs ==
    {[key |-> k, depth |-> d, value |-> 10 * d, node_type |-> nt, best_move |-> m] :
        k \in TTKeys, d \in 1..2, nt \in {"EXACT"}, m \in {"q1"}}

TTInit ==
    /\ UciIdle
    /\ eng \in {[NewEngine("coverage", DefaultMaxDepth, DefaultTTSizeMB) EXCEPT !.tt_size = n] :
                   n \in 1..MaxTTSize}
    /\ res = NoCall
    /\ calls = 0

StoreEntry ==
    \E a \in StoreArgs :
        /\ calls < MaxStores
        /\ calls' = calls + 1
        /\ eng' = StoreTTEntry(eng, a.key, a.depth, a.value, a.node_type, a.best_move)
        /\ res' = [op |-> "store", before |-> eng, key |-> a.key, args |-> a]
        /\ UNCHANGED uciVars

\* self.age += 1 of get_best_move
NextAge ==
    /\ eng.age < MaxAge
    /\ eng' = [eng EXCEPT !.age = @ + 1]
    /\ res' = [op |-> "age", before |-> eng]
    /\ UNCHANGED <<calls, uciVars>>

TTNext ==
    \/ StoreEntry
    \/ NextAge

\* stores into a transposition table of up to MaxTTSize records
SpecTT == TTInit /\ [][TTNext]_vars

(***************************************************************************)
(* _probe_tt called directly on a table of at most one record.             *)
(***************************************************************************)
\* the values, and the window bounds, of the records probed
ProbeValues == {-MaxProbeValue, 0, MaxProbeValue}
\* the tables probed
ProbeTables ==
    {<<>>} \cup
    {<<TTEntry(k, k, d, v, nt, m, 0)>> :
        k \in TTKeys, d \in 1..MaxProbeDepth, v \in ProbeValues, nt \in NodeTypes,
        m \in {None, "q1"}}

ProbeInit ==
    /\ UciIdle
    /\ eng \in {[NewEngine("coverage", DefaultMaxDepth, DefaultTTSizeMB) EXCEPT !.tt = t] :
                   t \in ProbeTables}
    /\ res = NoCall
    /\ calls = 0

\* tt_value, tt_move = self._probe_tt(zobrist_key, depth, alpha, beta)
CallProbeTT ==
    \E key \in TTKeys, depth \in 0..(MaxProbeDepth + 1), alpha \in ProbeValues,
       beta \in ProbeValues :
        /\ alpha <= beta
        /\ res' = [op |-> "probe", key |-> key, depth |-> depth, alpha |-> alpha,
                   beta |-> beta,
                   got |-> ProbeTT(eng, key, depth, alpha, beta)]
        /\ UNCHANGED <<eng, calls, uciVars>>

ProbeNext == CallProbeTT

\* probes of a transposition table
SpecProbe == ProbeInit /\ [][ProbeNext]_vars

(***************************************************************************)
(* The time budget: get_best_move sets time_limit from the time left and   *)
(* the increment (milliseconds here), and _is_time_up compares the time    *)
(* elapsed with it.                                                        *)
(***************************************************************************)
\* the times left: none, and values at and around the ends of the bands
TimesLeft ==
    {-1000, 0, 1, 40000, 50000, 60000, 60001, 200000, 600000, 600001, 1800000, 1800001}
Increments == {0, 1000, 10000}

TimeInit ==
    /\ UciIdle
    /\ eng \in {NewEngine(t, DefaultMaxDepth, DefaultTTSizeMB) : t \in SyncEngines}
    /\ res = NoCall
    /\ calls = 0

\* self.time_limit = self._calculate_time_limit(time_left, increment)
SetTimeLimit ==
    \E time_left \in TimesLeft, increment \in Increments :
        /\ res' = [op |-> "limit", time_left |-> time_left, increment |-> increment,
                   time_limit |-> CalculateTimeLimit(time_left, increment)]
        /\ UNCHANGED <<eng, calls, uciVars>>

\* _is_time_up, called when the clock shows start_time + elapsed
CheckTime ==
    /\ res.op \in {"limit", "time"}
    /\ \E elapsed \in {0, 1, res.time_limit - 1, res.time_limit, res.time_limit + 1,
                        600 * 30000 + 1} \cap Nat :
          res' = [op |-> "time", time_left |-> res.time_left, increment |-> res.increment,
                  time_limit |-> res.time_limit, elapsed |-> elapsed,
                  up |-> IsTimeUpAfter(res.time_limit, elapsed)]
    /\ UNCHANGED <<eng, calls, uciVars>>

TimeNext ==
    \/ SetTimeLimit
    \/ CheckTime

\* the time budget of a search
SpecTime == TimeInit /\ [][TimeNext]_vars

(***************************************************************************)
(* The coverage evaluator on a board of pieces.  A piece is a record of    *)
(* its square <<file, rank>>, type (K, N, R, P) and colour; attacks are    *)
(* those of chess.Board.attacks: the squares a piece attacks, occupied or  *)
(* not, a rook's ray ending on the first occupied square.                  *)
(***************************************************************************)
Squares == (1..BoardFiles) \X (1..BoardRanks)
PieceTypes == {"K", "N", "R", "P"}
Occupied(b, sq) == \E pc \in b.pieces : pc.sq = sq
Dist(a, c) == IF a >= c THEN a - c ELSE c - a

KingAttacks(sq) ==
    {t \in Squares : t # sq /\ Dist(t[1], sq[1]) <= 1 /\ Dist(t[2], sq[2]) <= 1}
KnightAttacks(sq) ==
    {t \in Squares : {Dist(t[1], sq[1]), Dist(t[2], sq[2])} = {1, 2}}
PawnAttacks(sq, color) ==
    {t \in Squares : /\ Dist(t[1], sq[1]) = 1
                     /\ t[2] = (IF color = "w" THEN sq[2] + 1 ELSE sq[2] - 1)}
\* the squares strictly between two squares of one file or one rank
Between(sq, t) ==
    {u \in Squares : \/ /\ u[1] = sq[1] /\ t[1] = sq[1]
                         /\ Min(sq[2], t[2]) < u[2] /\ u[2] < Max(sq[2], t[2])
                      \/ /\ u[2] = sq[2] /\ t[2] = sq[2]
                         /\ Min(sq[1], t[1]) < u[1] /\ u[1] < Max(sq[1], t[1])}
RookAttacks(b, sq) ==
    {t \in Squares : /\ t # sq
                     /\ (t[1] = sq[1] \/ t[2] = sq[2])
                     /\ \A u \in Between(sq, t) : ~Occupied(b, u)}
\* board.attacks(square)
Attacks(b, pc) ==
    CASE pc.type = "K" -> KingAttacks(pc.sq)
      [] pc.type = "N" -> KnightAttacks(pc.sq)
      [] pc.type = "P" -> PawnAttacks(pc.sq, pc.color)
      [] pc.type = "R" -> RookAttacks(b, pc.sq)

\* _calculate_piece_coverage: MOBILITY_VALUE for every square attacked and
\* OCCUPIED_ATTACK_BONUS for every occupied one among them
CalculatePieceCoverage(b, pc) ==
    Cardinality(Attacks(b, pc)) * MOBILITY_VALUE
    + Cardinality({t \in Attacks(b, pc) : Occupied(b, t)}) * OCCUPIED_ATTACK_BONUS

RECURSIVE SumCoverage(_, _)
\* the coverage of the pieces in pcs, added up
SumCoverage(b, pcs) ==
    IF pcs = {} THEN 0
    ELSE LET pc == CHOOSE x \in pcs : TRUE
         IN  CalculatePieceCoverage(b, pc) + SumCoverage(b, pcs \ {pc})

\* an evaluation that is White's view whoever is to move
EvaluateBoardForWhite(b) ==
    SumCoverage(b, {pc \in b.pieces : pc.color = "w"})
    - SumCoverage(b, {pc \in b.pieces : pc.color = "b"})

\* CoverageOpponent._evaluate_position
EvaluateBoard(b) ==
    IF b.turn = "w"
    THEN SumCoverage(b, {pc \in b.pieces : pc.color = "w"})
         - SumCoverage(b, {pc \in b.pieces : pc.color = "b"})
    ELSE -(SumCoverage(b, {pc \in b.pieces : pc.color = "w"})
           - SumCoverage(b, {pc \in b.pieces : pc.color = "b"}))

\* the colour-swapped mirror: ranks flipped, colours and side to move swapped
MirrorBoard(b) ==
    [pieces |-> {[sq |-> <<pc.sq[1], BoardRanks + 1 - pc.sq[2]>>, type |-> pc.type,
                  color |-> Other(pc.color)] : pc \in b.pieces},
     turn |-> Other(b.turn)]

\* the boards of at most MaxPieces pieces, no two on one square
AllPieces == [sq : Squares, type : PieceTypes, color : Turns]
RECURSIVE Placements(_)
Placements(n) ==
    IF n = 0 THEN {{}}
    ELSE Placements(n - 1) \cup
         {ps \cup {pc} : ps \in Placements(n - 1),
                         pc \in AllPieces} 
PieceBoards ==
    {[pieces |-> ps, turn |-> t] :
        ps \in {qs \in Placements(MaxPieces) :
                    \A x, y \in qs : x.sq = y.sq => x = y},
        t \in Turns}

(***************************************************************************)
(* The evaluators called directly: the capture evaluator on a position and *)
(* on the same position with material taken off, the coverage evaluator on *)
(* a board and on its mirror.                                              *)
(***************************************************************************)
EvalPositions ==
    {[kind |-> k, h |-> h, turn |-> t, fullmove |-> 1] :
        k \in {"n", "k", "i"}, h \in 0..MaxSearchH, t \in Turns}

\* a capture engine with a position on its board, or a coverage engine with
\* a board of pieces
EvalInit ==
    /\ UciIdle
    /\ eng \in {[NewEngine("capture", DefaultMaxDepth, DefaultTTSizeMB)
                    EXCEPT !.board = NewBoard(p)] : p \in EvalPositions}
          \cup {[NewEngine("coverage", DefaultMaxDepth, DefaultTTSizeMB)
                    EXCEPT !.board = b] : b \in PieceBoards}
    /\ res = NoCall
    /\ calls = 0

\* self._evaluate_position(board) of the capture engine, before and after
\* pieces worth `removed` left the board
CallEvaluateCapture ==
    \E removed \in 1..MaxSearchH :
        /\ eng.type = "capture"
        /\ removed <= eng.board.pos.h
        /\ res' = [op |-> "capture eval", pos |-> eng.board.pos,
                   less |-> [eng.board.pos EXCEPT !.h = @ - removed],
                   value |-> EvaluateCapture(eng, eng.board.pos),
                   value_less |-> EvaluateCapture(eng, [eng.board.pos EXCEPT !.h = @ - removed])]
        /\ UNCHANGED <<eng, calls, uciVars>>

\* self._evaluate_position(board) of the coverage engine, for the board and
\* for its mirror
CallEvaluateCoverage ==
    /\ eng.type = "coverage"
    /\ res' = [op |-> "coverage eval", board |-> eng.board,
               value |-> EvaluateBoard(eng.board),
               value_mirror |-> EvaluateBoard(MirrorBoard(eng.board))]
    /\ UNCHANGED <<eng, calls, uciVars>>

EvalNext ==
    \/ CallEvaluateCapture
    \/ CallEvaluateCoverage

\* the evaluators called directly
SpecEval == EvalInit /\ [][EvalNext]_vars

(***************************************************************************)
(* _search called with a window, a depth, a ply and a null-move permission *)
(* of the caller's choice, as the nodes of a search call it, with or       *)
(* without a deadline; then, perhaps after a move was pushed, called again *)
(* when the deadline has passed.  The engine keeps its logs.               *)
(***************************************************************************)
NodePositions ==
    {[kind |-> k, h |-> h, turn |-> t, fullmove |-> 1] :
        k \in {"n", "k"}, h \in 0..MaxNodeH, t \in Turns}
\* (alpha, beta): the root window, a null window and a narrow window
Windows == {<<-INF, INF>>, <<-1, 0>>, <<-3, 3>>}
NodeClocks == {NoDeadline, 2, 6}

NodeInit ==
    /\ UciIdle
    /\ eng \in {[NewEngine(t, DefaultMaxDepth, DefaultTTSizeMB)
                     EXCEPT !.board = NewBoard(p), !.logging = TRUE] :
                   t \in SyncEngines, p \in NodePositions}
    /\ res = NoCall
    /\ calls = 0

\* _search returned r to a caller that gave it window w
NodeReturned(r, depth, w, ply, do_null_move, clock) ==
    /\ eng' = r.e
    /\ res' = [op |-> "search node", before |-> eng, depth |-> depth, alpha |-> w[1],
               beta |-> w[2], ply |-> ply, do_null_move |-> do_null_move, clock |-> clock,
               value |-> r.value, move |-> r.move]

\* value, move = self._search(board, depth, alpha, beta, ply, do_null_move)
CallSearchNode ==
    \E depth \in 0..MaxNodeDepth, w \in Windows, do_null_move \in BOOLEAN,
       clock \in NodeClocks :
        /\ calls = 0
        /\ calls' = 1
        /\ NodeReturned(Search([ClearLogs(eng) EXCEPT !.clock = clock, !.expired = FALSE],
                               depth, w[1], w[2], 0, do_null_move),
                        depth, w, 0, do_null_move, clock)
        /\ UNCHANGED uciVars

\* board.push(move) after the first call
NodePush ==
    \E m \in LegalMoves(eng.board.pos) :
        /\ calls = 1
        /\ Len(eng.board.moves) < MaxNodePushes
        /\ eng' = Pushed(eng, m)
        /\ res' = [op |-> "push", before |-> eng, move |-> m]
        /\ UNCHANGED <<calls, uciVars>>

\* the same call made when time.time() - self.start_time >= self.time_limit
CallSearchLate ==
    \E depth \in {0, 1, 3}, w \in Windows, ply \in {0, 1} :
        /\ calls = 1
        /\ calls' = 2
        /\ NodeReturned(Search([ClearLogs(eng) EXCEPT !.clock = 0, !.expired = FALSE],
                               depth, w[1], w[2], ply, TRUE),
                        depth, w, ply, TRUE, 0)
        /\ UNCHANGED uciVars

NodeNext ==
    \/ CallSearchNode
    \/ NodePush
    \/ CallSearchLate

\* _search called as a node
SpecNode == NodeInit /\ [][NodeNext]_vars

(***************************************************************************)
(* A game of several get_best_move calls on an engine whose table is full  *)
(* after a few stores, with moves pushed between the calls.  The engine    *)
(* keeps its logs.                                                         *)
(***************************************************************************)
AgedPositions ==
    {[kind |-> "n", h |-> h, turn |-> t, fullmove |-> 1] : h \in 2..MaxSearchH, t \in Turns}

AgedInit ==
    /\ UciIdle
    /\ eng \in {[NewEngine(t, d, DefaultTTSizeMB)
                     EXCEPT !.board = NewBoard(p), !.tt_size = n, !.logging = TRUE] :
                   t \in SyncEngines, d \in 1..2, p \in AgedPositions,
                   n \in 1..MaxAgedTTSize}
    /\ res = NoCall
    /\ calls = 0

\* move = engine.get_best_move()
CallGetBestMoveAged ==
    \E clock \in {NoDeadline, 3} :
        /\ calls < MaxAgedCalls
        /\ calls' = calls + 1
        /\ Returned(GetBestMove(eng, clock), clock)
        /\ UNCHANGED uciVars

\* a move of the game is played: the move returned, another one, or the
\* opponent's reply
AgedPush ==
    \E m \in LegalMoves(eng.board.pos) :
        /\ eng' = Pushed(eng, m)
        /\ res' = [op |-> "push", before |-> eng, move |-> m]
        /\ UNCHANGED <<calls, uciVars>>

AgedNext ==
    \/ CallGetBestMoveAged
    \/ AgedPush

\* searches of one game on an engine with a small table
SpecAged == AgedInit /\ [][AgedNext]_vars

(***************************************************************************)
(* _update_killer_moves called directly, with plies on both sides of the   *)
(* length of the killer list.                                              *)
(***************************************************************************)
KillerPlies == {0, 1, MAX_PLY - 1, MAX_PLY, MAX_PLY + 1}
KillerMoves == {"q1", "r0", "p3"}

KillerInit ==
    /\ UciIdle
    /\ eng \in {NewEngine(t, DefaultMaxDepth, DefaultTTSizeMB) : t \in SyncEngines}
    /\ res = NoCall
    /\ calls = 0

\* self._update_killer_moves(move, ply)
CallUpdateKillerMoves ==
    \E m \in KillerMoves, ply \in KillerPlies :
        /\ calls < MaxKillerCalls
        /\ calls' = calls + 1
        /\ eng' = UpdateKillerMoves(eng, m, ply)
        /\ res' = [op |-> "killer", before |-> eng, move |-> m, ply |-> ply]
        /\ UNCHANGED uciVars

KillerNext == CallUpdateKillerMoves

\* killer updates called directly
SpecKiller == KillerInit /\ [][KillerNext]_vars

(***************************************************************************)
(* _order_moves applied to the legal moves of a position with pawns, with  *)
(* the history and killer tables earlier searches may have left.           *)
(***************************************************************************)
OrderPositions ==
    {[kind |-> "p", h |-> h, turn |-> t, fullmove |-> 1] : h \in 1..MaxSearchH, t \in Turns}
\* sums of depth * depth over the cutoffs of a quiet move
HistoryValues == {1, 150000, 250000, 350000}
HistoryTables ==
    {<<>>} \cup {(m :> v) : m \in {"q1", "a6", "p3"}, v \in HistoryValues}
\* the killers of ply 0
KillerTables ==
    {<<>>} \cup {(0 :> <<m, None>>) : m \in {"q1", "e8", "a6", "p3"}}

OrderInit ==
    /\ UciIdle
    /\ eng \in {[NewEngine(t, DefaultMaxDepth, DefaultTTSizeMB)
                     EXCEPT !.board = NewBoard(p), !.history = h, !.killers = k] :
                   t \in SyncEngines, p \in OrderPositions, h \in HistoryTables,
                   k \in KillerTables}
    /\ res = NoCall
    /\ calls = 0

\* the scores the coverage engine sorts by (the capture engine has none)
ScoresOf(e, p, ply, tt_move) ==
    IF e.type = "capture" THEN <<>>
    ELSE [m \in LegalMoves(p) |-> MoveScore(e, p, m, ply, tt_move)]

\* self._order_moves(board, list(board.legal_moves), ply, tt_move)
CallOrderMoves ==
    \E ply \in 0..1, tt_move \in LegalMoves(eng.board.pos) \cup {None} :
        /\ calls < MaxCalls
        /\ calls' = calls + 1
        /\ res' = [op |-> "order", ply |-> ply, tt_move |-> tt_move,
                   moves |-> LegalMoveSeq(eng.board.pos),
                   scores |-> ScoresOf(eng, eng.board.pos, ply, tt_move),
                   ordered |-> OrderMoves(eng, eng.board.pos, LegalMoveSeq(eng.board.pos),
                                          ply, tt_move)]
        /\ UNCHANGED <<eng, uciVars>>

OrderNext == CallOrderMoves

\* _order_moves called directly
SpecOrder == OrderInit /\ [][OrderNext]_vars

(***************************************************************************)
(* OpponentEngine.get_move called directly, as test_all_opponents does,    *)
(* with the caller's board on eng.board.                                   *)
(***************************************************************************)
OpponentInit ==
    /\ UciIdle
    /\ eng \in {[NewEngine(t, 0, 0) EXCEPT !.board = NewBoard(p)] :
                   t \in OpponentTypes, p \in DirectPositions}
    /\ res = NoCall
    /\ calls = 0

\* move = engine.get_move(board)
CallGetMove ==
    \E book \in Books, sf \in BOOLEAN :
        \E mv \in GetMove(eng.type, book, sf, eng.board) :
            /\ calls < MaxCalls
            /\ calls' = calls + 1
            /\ res' = [op |-> "get_move", before |-> eng, book |-> book, stockfish |-> sf,
                       move |-> mv]
            /\ UNCHANGED <<eng, uciVars>>

\* board.push(move) of the caller
OpponentPush ==
    /\ res.op = "get_move"
    /\ res.move \in LegalMoves(eng.board.pos)
    /\ eng' = Pushed(eng, res.move)
    /\ res' = [op |-> "push", before |-> eng, move |-> res.move]
    /\ UNCHANGED <<calls, uciVars>>

OpponentNext ==
    \/ CallGetMove
    \/ OpponentPush

\* get_move called directly
SpecOpponent == OpponentInit /\ [][OpponentNext]_vars

(***************************************************************************)
(* What the specification says, stated over the model.                     *)
(***************************************************************************)
SyncFrontends == {"coverage", "capture", "random"}
\* the line handled last took this branch of run()
LastIs(handler) == nread > 0 /\ HandlerOf(frontend, last.line) = handler
\* the bestmove lines on standard output that belong to input line n
BestMovesOf(n) ==
    {i \in 1..Len(out) : out[i].cmd = n /\ out[i].stream = "out" /\ out[i].k = "bestmove"}
\* the info lines on standard output that belong to input line n
InfoLinesOf(n) ==
    {i \in 1..Len(out) : /\ out[i].cmd = n
                         /\ out[i].stream = "out"
                         /\ out[i].k \in {"info depth", "info string"}}

\* C1: in the synchronous front ends, once a go line has been handled exactly
\* one bestmove line has been printed for it
C1_SyncGoPrintsOneBestmove ==
    (frontend \in SyncFrontends /\ LastIs("go")) => Cardinality(BestMovesOf(nread)) = 1

\* no worker of the threaded front end is running and the input thread is
\* not waiting for one
WorkersDone ==
    /\ inputpc = "read"
    /\ \A w \in 1..Len(workers) : workers[w].pc = "done"

\* C2: in the threaded front end, once every worker has ended, each go that
\* started a search has exactly one bestmove line, and so has a go that was
\* read while a search was running
C2_ThreadedGoPrintsOneBestmove ==
    (frontend = "threaded" /\ WorkersDone) =>
        /\ \A w \in 1..Len(workers) : Cardinality(BestMovesOf(workers[w].cmd)) = 1
        /\ LastIs("go") => Cardinality(BestMovesOf(nread)) = 1

\* C3: the bestmove printed for a go is 0000 when the position the go
\* searched has no legal move, and is one of its legal moves otherwise
C3_NullMoveOnlyWithoutLegalMoves ==
    (frontend \in SyncFrontends /\ LastIs("go")) =>
        \A i \in BestMovesOf(nread) :
            IF LegalMoves(last.board.pos) = {}
            THEN out[i].move = "0000"
            ELSE out[i].move \in LegalMoves(last.board.pos)

\* C4: an iteration of get_best_move inside which the deadline expired
\* prints no info depth line, and the move returned is the best move as it
\* was before that iteration
C4_InterruptedIterationDiscarded ==
    res.op = "get_best_move" =>
        \A k \in 1..Len(res.iters) :
            res.iters[k].expired =>
                /\ res.move = res.iters[k].before
                /\ \A i \in 1..Len(res.out) :
                      ~(res.out[i].k = "info depth" /\ res.out[i].depth = res.iters[k].depth)

\* C5: the info lines of a go precede its bestmove, and its bestmove precedes
\* every line printed for a later input line
C5_BestmoveBeforeLaterOutput ==
    \A i, j \in 1..Len(out) :
        (out[j].k = "bestmove" /\ out[j].stream = "out" /\ out[i].stream = "out") =>
            /\ (out[i].cmd = out[j].cmd /\ i \in InfoLinesOf(out[j].cmd)) => i < j
            /\ out[i].cmd > out[j].cmd => j < i

\* the tokens of a position line: the FEN fields, the moves, the start
MovesAt(parts) ==
    IF \E i \in 3..Len(parts) : parts[i] = "moves"
    THEN CHOOSE i \in 3..Len(parts) :
            parts[i] = "moves" /\ \A j \in 3..(i - 1) : parts[j] # "moves"
    ELSE Len(parts) + 1
FenGiven(parts) == SubSeq(parts, 3, MovesAt(parts) - 1)
MovesGiven(parts) == SubSeq(parts, MovesAt(parts) + 1, Len(parts))
StartGiven(parts) ==
    IF parts[2] = "startpos" THEN StartPos ELSE FenTable[FenGiven(parts)]
StartIsGood(parts) ==
    /\ Len(parts) >= 2
    /\ parts[2] = "startpos" \/ (parts[2] = "fen" /\ FenValid(FenGiven(parts)))
\* every move given is a move and legal where it is made
RECURSIVE AllLegal(_, _, _)
AllLegal(p, moves, j) ==
    \/ j > Len(moves)
    \/ /\ moves[j] \in MoveNames
       /\ moves[j] \in LegalMoves(p)
       /\ AllLegal(ApplyMove(p, moves[j]), moves, j + 1)
\* the position after the moves given
RECURSIVE AfterMoves(_, _, _)
AfterMoves(p, moves, j) ==
    IF j > Len(moves) THEN p ELSE AfterMoves(ApplyMove(p, moves[j]), moves, j + 1)
PositionIsGood(parts) ==
    StartIsGood(parts) /\ AllLegal(StartGiven(parts), MovesGiven(parts), 1)
\* every move on the board's stack was legal where it was made
OnlyLegalPushed(b) ==
    \A j \in 1..Len(b.moves) : b.moves[j] \in LegalMoves(b.undo[j])

\* an info string was printed for input line n, on either stream
InfoStringFor(n) == \E i \in 1..Len(out) : out[i].cmd = n /\ out[i].k = "info string"

\* C6: after a position line with a bad FEN or a bad move an info string was
\* printed and the board is the board from before the line; no board ever
\* holds a move that was illegal where it was made
C6_BadPositionLeavesBoard ==
    /\ OnlyLegalPushed(CurBoard)
    /\ (LastIs("position") /\ ~PositionIsGood(last.line)) =>
          /\ CurBoard = last.board
          /\ InfoStringFor(nread)

\* C7: after a position line whose moves are all legal the board holds the
\* position reached by making them from the start given
C7_PositionAppliesMoves ==
    (LastIs("position") /\ PositionIsGood(last.line)) =>
        CurBoard.pos = AfterMoves(StartGiven(last.line), MovesGiven(last.line), 1)

\* the line has a depth token
HasDepth(parts) == \E i \in 1..Len(parts) : parts[i] = "depth"

\* C8: once a go with a depth token has been handled, max_depth is what it
\* was before the go
C8_GoDepthRestoresMaxDepth ==
    (frontend \in SyncEngines /\ LastIs("go") /\ HasDepth(last.line)) =>
        engine.max_depth = last.max_depth

\* C9: the transposition table never holds more than tt_size records
C9_TableWithinCapacity == Len(eng.tt) <= eng.tt_size

\* the records of an engine's table that are stale at its age
StaleRecords(e) == {e.tt[i] : i \in OldKeys(e.tt, e.age)}
\* the records of a table
RecordsOf(e) == {e.tt[i] : i \in 1..Len(e.tt)}

\* C10: a store that finds the table at capacity with k >= 1 stale records
\* removes at least k/2 of them
C10_StoreDropsHalfOfStale ==
    (/\ res.op = "store"
     /\ Len(res.before.tt) >= res.before.tt_size
     /\ StaleRecords(res.before) # {}) =>
        2 * Cardinality(StaleRecords(res.before) \ RecordsOf(eng))
            >= Cardinality(StaleRecords(res.before))

\* the record the table holds under a key (the table has one)
RecordAt(e, key) == e.tt[TTIndex(e.tt, key)]

\* C11: after a store the table holds, under the key stored, one record: the
\* one just built, with the engine's age; every record's zobrist_key is the
\* key it is filed under
C11_StoreAlwaysFiled ==
    /\ \A i \in 1..Len(eng.tt) : eng.tt[i].zobrist_key = eng.tt[i].k
    /\ res.op = "store" =>
          /\ Cardinality({i \in 1..Len(eng.tt) : eng.tt[i].k = res.key}) = 1
          /\ RecordAt(eng, res.key) =
                TTEntry(res.key, res.key, res.args.depth, res.args.value,
                        res.args.node_type, res.args.best_move, res.before.age)

\* a store of a new key into a table at capacity that held no stale record
C11_StoredAtCapacity ==
    /\ res.op = "store"
    /\ Len(res.before.tt) >= res.before.tt_size
    /\ StaleRecords(res.before) = {}
    /\ TTIndex(res.before.tt, res.key) = 0
    /\ TTIndex(eng.tt, res.key) # 0

\* the record is one whose value a probe with these arguments may return
Usable(r, depth, alpha, beta) ==
    /\ r.depth >= depth
    /\ \/ r.node_type = "EXACT"
       \/ r.node_type = "LOWER_BOUND" /\ r.value >= beta
       \/ r.node_type = "UPPER_BOUND" /\ r.value <= alpha

\* C12: a probe returns a value exactly when the table holds a record for the
\* key that is deep enough and whose bound fits the window, and the value is
\* the stored one; whenever a record exists its best move comes back as the
\* hint; without a record the result is (None, None)
C12_ProbeReturnsUsableRecords ==
    res.op = "probe" =>
        IF TTIndex(eng.tt, res.key) = 0
        THEN ~res.got.hit /\ res.got.move = None
        ELSE /\ res.got.move = RecordAt(eng, res.key).best_move
             /\ res.got.hit <=> Usable(RecordAt(eng, res.key), res.depth, res.alpha, res.beta)
             /\ res.got.hit => res.got.value = RecordAt(eng, res.key).value

\* a probe deeper than the record found: no value, but the move as a hint
C12_ShallowRecordGivesHint ==
    /\ res.op = "probe"
    /\ TTIndex(eng.tt, res.key) # 0
    /\ RecordAt(eng, res.key).depth < res.depth
    /\ RecordAt(eng, res.key).node_type = "EXACT"
    /\ ~res.got.hit
    /\ res.got.move = "q1"

\* the last two steps were _search calls with the same depth and ply, the
\* second on the engine as the first left it
SearchedTwice ==
    /\ res.op = "search"
    /\ res.prev.op = "search"
    /\ res.prev.depth = res.depth
    /\ res.prev.ply = res.ply

\* C13: the second of two successive searches of a position to the same depth
\* returns the value and the move of the first; where the game is not over
\* the table then holds an EXACT record for the position, from which the
\* second search took its result without storing anything
C13_SearchTwiceSameResult ==
    SearchedTwice =>
        /\ res.value = res.prev.value
        /\ res.move = res.prev.move
        /\ ~BoardIsGameOver(res.before.board) =>
              /\ TTIndex(res.before.tt, ZobristKey(res.before.board.pos)) # 0
              /\ RecordAt(res.before, ZobristKey(res.before.board.pos)).node_type = "EXACT"
              /\ RecordAt(res.before, ZobristKey(res.before.board.pos)).value = res.value
              /\ RecordAt(res.before, ZobristKey(res.before.board.pos)).best_move = res.move
              /\ eng.tt = res.before.tt

\* two successive searches to depth 2 or more that returned a move
C13_SearchedTwiceWithMove ==
    /\ SearchedTwice
    /\ res.depth >= 2
    /\ res.move # None
    /\ Len(res.before.tt) >= 2

Abs(x) == IF x < 0 THEN -x ELSE x

\* C14: the value a search returns, and every value in the table, lies
\* within MATE_SCORE of zero
C14_ScoresWithinMate ==
    /\ res.op = "search" => Abs(res.value) <= MATE_SCORE
    /\ \A i \in 1..Len(eng.tt) : Abs(eng.tt[i].value) <= MATE_SCORE

\* the moves that mate at once
MateInOne(p) == {m \in LegalMoves(p) : IsCheckmate(ApplyMove(p, m))}
\* the moves after which every reply allows mate at once: forced mates in
\* three plies
MateInThree(p) ==
    {m \in LegalMoves(p) \ MateInOne(p) :
        /\ LegalMoves(ApplyMove(p, m)) # {}
        /\ \A r \in LegalMoves(ApplyMove(p, m)) :
              MateInOne(ApplyMove(ApplyMove(p, m), r)) # {}}

\* C15: where the side to move can mate in one ply and also in three, the
\* coverage engine's search does not return the move of the longer mate, as
\* it would if that line's score were not strictly lower
C15_ShorterMatePreferred ==
    (/\ res.op = "search"
     /\ eng.type = "coverage"
     /\ MateInOne(res.before.board.pos) # {}) =>
        res.move \notin MateInThree(res.before.board.pos)

\* the moves after which the position has occurred three times in the game
RepetitionMoves(b) == {m \in LegalMoves(b.pos) : Occurrences(Push(b, m)) >= 3}
\* the moves that start a forced mate and do not repeat the position
WinningAlternatives(b) ==
    (MateInOne(b.pos) \cup MateInThree(b.pos)) \ RepetitionMoves(b)

\* C16: a node inside the search whose position has occurred three times is
\* scored 0 with no move, and a root search deep enough to see a forced mate
\* that avoids the repetition does not return a move that completes it
C16_ThreefoldScoredAsDraw ==
    /\ (res.op = "search" /\ res.ply > 0 /\ Occurrences(res.before.board) >= 3) =>
          res.value = 0 /\ res.move = None
    /\ (/\ res.op = "search"
        /\ res.ply = 0
        /\ res.depth >= 3
        /\ WinningAlternatives(res.before.board) # {}) =>
          res.move \notin RepetitionMoves(res.before.board)

\* the moves that are a capture in some position
CaptureMoves == {m \in MoveNames : \E p \in DirectPositions : IsCapture(p, m)}
\* the moves in the killer slots of a ply
SlotsAt(e, ply) == {KillersAt(e, ply)[j] : j \in 1..2} \ {None}
\* the logged cutoffs of a ply by moves that were no capture at their node
QuietCutoffsAt(e, ply) ==
    {e.cutoffs[j].move : j \in {i \in 1..Len(e.cutoffs) :
                                   e.cutoffs[i].ply = ply /\ ~e.cutoffs[i].capture}}

\* C17: no killer slot ever holds a capture, and every move a search wrote
\* into a slot produced a beta cutoff at that ply as a non-capture
C17_KillersAreQuiet ==
    /\ \A ply \in DOMAIN eng.killers : SlotsAt(eng, ply) \cap CaptureMoves = {}
    /\ res.op = "search" =>
          \A ply \in DOMAIN eng.killers :
              SlotsAt(eng, ply) \subseteq SlotsAt(res.before, ply) \cup QuietCutoffsAt(eng, ply)

\* a search in which a capture produced a beta cutoff and a killer slot is set
C17_CaptureCutoffAndKiller ==
    /\ res.op = "search"
    /\ \E j \in 1..Len(eng.cutoffs) : eng.cutoffs[j].capture
    /\ \E ply \in DOMAIN eng.killers : SlotsAt(eng, ply) # {}

RECURSIVE QuietSquares(_, _, _)
\* the sum of depth * depth over the logged cutoffs by m as a non-capture
QuietSquares(log, m, j) ==
    IF j > Len(log) THEN 0
    ELSE (IF log[j].move = m /\ ~log[j].capture THEN log[j].depth * log[j].depth ELSE 0)
         + QuietSquares(log, m, j + 1)

\* C18: every history entry is non-negative; a get_best_move call raises the
\* entry of a move by the sum of d * d over the beta cutoffs that move
\* produced as a non-capture at remaining depth d >= 1 and changes it in no
\* other way, and a push leaves the table as it was
C18_HistoryGrowsByDepthSquared ==
    /\ \A m \in DOMAIN eng.history : eng.history[m] >= 0
    /\ res.op = "get_best_move" =>
          /\ \A j \in 1..Len(eng.cutoffs) : eng.cutoffs[j].depth >= 1
          /\ \A m \in MoveNames :
                HistoryOf(eng, m) = HistoryOf(res.before, m) + QuietSquares(eng.cutoffs, m, 1)
    /\ res.op = "push" => eng.history = res.before.history

\* a call that met its deadline, in which a capture and, at depth 2 or more,
\* a non-capture produced beta cutoffs
C18_QuietAndCaptureCutoffs ==
    /\ res.op = "get_best_move"
    /\ eng.expired
    /\ \E j \in 1..Len(eng.cutoffs) : eng.cutoffs[j].capture
    /\ \E j \in 1..Len(eng.cutoffs) : ~eng.cutoffs[j].capture /\ eng.cutoffs[j].depth >= 2

C20_NewGameResets ==
    LastIs("ucinewgame") =>
        /\ CurBoard = NewBoard(StartPos)
        /\ \A i \in 1..Len(out) : out[i].cmd # nread
        /\ frontend \in SyncEngines =>
              /\ engine.tt = <<>>
              /\ \A ply \in 0..(MAX_PLY - 1) : KillersAt(engine, ply) = <<None, None>>
              /\ \A m \in MoveNames : HistoryOf(engine, m) = 0
              /\ engine.max_depth = last.max_depth

\* ucinewgame read by a search front end whose board was not the starting
\* position
C20_NewGameAfterPosition ==
    /\ LastIs("ucinewgame")
    /\ frontend \in SyncEngines
    /\ last.board # NewBoard(StartPos)

\* a setoption line in the layout `setoption name N value V` with an integer V
OptionGiven(parts) ==
    /\ Len(parts) >= 5
    /\ parts[2] = "name"
    /\ parts[4] = "value"
    /\ parts[3] \in {"MaxDepth", "TTSize"}
    /\ IsNumber(parts[5])

\* C21: setoption MaxDepth sets max_depth to min(20, max(1, V)); setoption
\* TTSize leaves an empty table sized for min(1024, max(16, V)) MB; any other
\* setoption line leaves the engine as it was; max_depth stays within 1..20
C21_SetOptionClamps ==
    LastIs("setoption") =>
        /\ (OptionGiven(last.line) /\ last.line[3] = "MaxDepth") =>
              engine.max_depth = Min(20, Max(1, IntTable[last.line[5]]))
        /\ (OptionGiven(last.line) /\ last.line[3] = "TTSize") =>
              /\ engine.tt = <<>>
              /\ engine.tt_size = TTSizeOf(Min(1024, Max(16, IntTable[last.line[5]])))
              /\ engine.max_depth = last.max_depth
        /\ ~OptionGiven(last.line) => engine = last.engine
        /\ last.max_depth \in 1..20 => engine.max_depth \in 1..20

\* setoption TTSize with a value above the range, read by an engine whose
\* table held records
C21_TTSizeAboveRange ==
    /\ LastIs("setoption")
    /\ OptionGiven(last.line)
    /\ last.line[3] = "TTSize"
    /\ IntTable[last.line[5]] > 1024
    /\ last.engine.tt # <<>>

\* the lines a front end has no command for, and the malformed ones
BadLines(fe) ==
    {parts \in Lines : HandlerOf(fe, parts) = "ignored"}
    \cup {<<"position", "fen", "bad">>,
          <<"setoption", "name", "MaxDepth", "value", "abc">>}
\* the info string lines printed on standard output for input line n
InfoStringsOf(n) ==
    {i \in 1..Len(out) : /\ out[i].cmd = n
                         /\ out[i].stream = "out"
                         /\ out[i].k \in {"info string", "info string Invalid FEN",
                                          "info string Illegal move",
                                          "info string Invalid move format"}}

\* C22: after an unknown or malformed line the loop is still running, the
\* board and the engine tables are what they were, and exactly one info
\* string line was printed for it on standard output
C22_BadLineReportedOnce ==
    (nread > 0 /\ last.line \in BadLines(frontend)) =>
        /\ alive
        /\ CurBoard = last.board
        /\ engine.tt = last.engine.tt
        /\ engine.killers = last.engine.killers
        /\ engine.history = last.engine.history
        /\ Cardinality(InfoStringsOf(nread)) = 1

\* C23: the position a worker of the threaded front end calls get_move with
\* is the position that was on the board when its go was read
C23_WorkerSearchesGoPosition ==
    \A w \in 1..Len(workers) :
        workers[w].pc \in {"check", "check2"} => workers[w].pos = workers[w].given

\* the divisor and the cap (seconds) of the band a time left (ms) falls in
BandOf(time_left) ==
    IF time_left > 1800000 THEN <<40, 30>>
    ELSE IF time_left > 600000 THEN <<30, 20>>
    ELSE IF time_left > 60000 THEN <<20, 10>>
    ELSE <<10, 5>>
\* min(time_left / N + 0.8 * inc, cap) in units of 1/600 ms
Budget(time_left, increment) ==
    Min((600 * time_left) \div BandOf(time_left)[1] + 480 * increment,
        600 * 1000 * BandOf(time_left)[2])

\* C24: the time limit is 0 when no time is left, and then _is_time_up is
\* never true; otherwise it is min(time_left / N + 0.8 * inc, cap) for the
\* band of time_left, and _is_time_up is true exactly when the time elapsed
\* has reached it
C24_TimeLimitByBand ==
    res.op \in {"limit", "time"} =>
        /\ res.time_left <= 0 => res.time_limit = 0
        /\ res.time_left > 0 => res.time_limit = Budget(res.time_left, res.increment)
        /\ res.op = "time" =>
              /\ res.time_left <= 0 => ~res.up
              /\ res.time_left > 0 => (res.up <=> res.elapsed >= res.time_limit)

\* a limit below its cap, in the band above one minute, reached exactly
C24_DeadlineReachedBelowCap ==
    /\ res.op = "time"
    /\ res.time_left > 60000
    /\ res.time_limit < 600 * 10000
    /\ res.elapsed = res.time_limit
    /\ res.up

\* C25: the baseline of the capture evaluator is the material of the
\* starting position, whatever positions were searched
C25_StartingMaterialFixed ==
    eng.type = "capture" => eng.starting_material = CalculateTotalMaterial(StartPos)

\* the side to move has a capture
HasCapture(p) == \E m \in LegalMoves(p) : IsCapture(p, m)

\* C26: with material taken off, capture availability as before and neither
\* position finished, the capture evaluator's value is strictly higher
C26_LessMaterialScoresHigher ==
    (/\ res.op = "capture eval"
     /\ HasCapture(res.pos) = HasCapture(res.less)
     /\ ~IsGameOver(res.pos)
     /\ ~IsGameOver(res.less)) =>
        res.value_less > res.value

\* C27: the coverage evaluation of a board and of its colour-swapped mirror
\* are equal
C27_CoverageMirrorSymmetric ==
    res.op = "coverage eval" => res.value = res.value_mirror

\* a board with Black to move on which a pawn attacks an occupied square and
\* the evaluation is not zero
C27_PawnAttacksPiece ==
    /\ res.op = "coverage eval"
    /\ res.board.turn = "b"
    /\ res.value # 0
    /\ \E pc \in res.board.pieces :
          pc.type = "P" /\ \E t \in Attacks(res.board, pc) : Occupied(res.board, t)

\* C28: get_move returns None when the game is over on the board and only
\* then, any other value is a move legal on the board, and the board is left
\* as it was
C28_GetMoveReturnsLegalMove ==
    res.op = "get_move" =>
        /\ res.move = None <=> BoardIsGameOver(res.before.board)
        /\ res.move # None => res.move \in LegalMoves(res.before.board.pos)
        /\ eng.board = res.before.board

\* the class of a move in the priority list: 1 the TT move, 2 gives
\* checkmate, 3 gives check, 4 capture, 5 killer at this ply, 6 promotion,
\* 7 pawn push to the sixth or seventh rank of the mover, 8 other quiet move
MoveClass(e, p, m, ply, tt_move) ==
    IF m = tt_move THEN 1
    ELSE IF GivesCheck(p, m) /\ IsCheckmate(ApplyMove(p, m)) THEN 2
    ELSE IF GivesCheck(p, m) THEN 3
    ELSE IF IsCapture(p, m) THEN 4
    ELSE IF m = KillersAt(e, ply)[1] \/ m = KillersAt(e, ply)[2] THEN 5
    ELSE IF IsPromotion(m) THEN 6
    ELSE IF IsPawnMove(p, m)
            /\ (IF p.turn = "w" THEN ToRank(p, m) + 1 >= 6 ELSE ToRank(p, m) + 1 <= 3)
         THEN 7
    ELSE 8
ClassAt(i) == MoveClass(eng, eng.board.pos, res.ordered[i], res.ply, res.tt_move)

\* C29: _order_moves returns the moves it was given, each once, and no move
\* of a higher class comes after a move of a lower class, in the coverage
\* and in the capture engine, whatever the history table holds
C29_OrderedByClass ==
    res.op = "order" =>
        /\ Len(res.ordered) = Len(res.moves)
        /\ {res.ordered[i] : i \in 1..Len(res.ordered)} = LegalMoves(eng.board.pos)
        /\ \A i, j \in 1..Len(res.ordered) : i < j => ClassAt(i) <= ClassAt(j)

\* C30: in the coverage engine's _order_moves every move of the last class
\* (quiet, not the TT move, no check, no killer, no promotion, no pawn push to
\* the sixth or seventh rank), pawn moves included, has the score
\* history[(from, to)], 0 when the table has no entry
C30_OtherQuietScoredByHistory ==
    (res.op = "order" /\ eng.type = "coverage") =>
        \A m \in LegalMoves(eng.board.pos) :
            MoveClass(eng, eng.board.pos, m, res.ply, res.tt_move) = 8
                => res.scores[m] = HistoryOf(eng, m)

\* C39: in the search front ends a setoption TTSize with a number leaves an
\* empty table, the board of the earlier position command and max_depth as
\* they were, and ucinewgame leaves the table size as it was
C39_ConfigurationChangesOnlyItsTarget ==
    /\ (LastIs("setoption") /\ frontend \in SyncEngines /\ OptionGiven(last.line)
        /\ last.line[3] = "TTSize") =>
           /\ engine.tt = <<>>
           /\ engine.board = last.board
           /\ engine.max_depth = last.max_depth
    /\ (LastIs("ucinewgame") /\ frontend \in SyncEngines) =>
           engine.tt_size = last.engine.tt_size

\* C31: every record _search stores is EXACT exactly when the best value lies
\* strictly between the alpha the node was entered with and beta, LOWER_BOUND
\* exactly when it is at least beta and UPPER_BOUND exactly when it is at most
\* that alpha, and it holds the best value, the node's remaining depth and
\* the age of the search
C31_StoredBoundByEntryWindow ==
    \A i \in 1..Len(eng.stores) :
        /\ eng.stores[i].record.node_type = "EXACT"
              <=> (eng.stores[i].alpha < eng.stores[i].best_value
                   /\ eng.stores[i].best_value < eng.stores[i].beta)
        /\ eng.stores[i].record.node_type = "LOWER_BOUND"
              <=> eng.stores[i].best_value >= eng.stores[i].beta
        /\ eng.stores[i].record.node_type = "UPPER_BOUND"
              <=> eng.stores[i].best_value <= eng.stores[i].alpha
        /\ eng.stores[i].record.value = eng.stores[i].best_value
        /\ eng.stores[i].record.depth = eng.stores[i].depth
        /\ eng.stores[i].record.age = eng.stores[i].age

\* a search has stored a record of each bound, one of them at a node whose
\* alpha was raised above the one it was entered with
C31_ThreeBoundsStored ==
    /\ \A t \in {"EXACT", "LOWER_BOUND", "UPPER_BOUND"} :
          \E i \in 1..Len(eng.stores) : eng.stores[i].record.node_type = t
    /\ \E i \in 1..Len(eng.stores) :
          /\ eng.stores[i].record.node_type = "EXACT"
          /\ eng.stores[i].alpha > -INF

\* the entries of the null-move log
NullAt(i) == eng.nulls[i]
\* the null-move search of the call's own node came back with a score that
\* cuts off
RootNullCut ==
    \E i \in 1..Len(eng.nulls) :
        /\ NullAt(i).ev = "back"
        /\ NullAt(i).path = res.before.board.moves
        /\ NullAt(i).null_score >= NullAt(i).beta

\* C32: a null move is pushed only by a node that allows it, has remaining
\* depth at least 3, is not in check and evaluates to at least beta, and never
\* on a board whose last move is a null move; the search below it gets depth
\* - 3, the window (-beta, -beta + 1) and no permission for a null move; when
\* its negated score is at least beta the node stores nothing and returns
\* (beta, None)
C32_NullMoveOnlyWhenAllowed ==
    res.op = "search node" =>
        /\ \A i \in 1..Len(eng.nulls) :
              /\ NullAt(i).ev = "null" =>
                    /\ NullAt(i).allowed
                    /\ NullAt(i).depth >= 3
                    /\ ~NullAt(i).in_check
                    /\ NullAt(i).eval >= NullAt(i).beta
                    /\ ~NullAt(i).after_null
                    /\ i < Len(eng.nulls)
                    /\ NullAt(i + 1).ev = "child"
              /\ NullAt(i).ev = "child" =>
                    /\ i > 1
                    /\ NullAt(i - 1).ev = "null"
                    /\ NullAt(i).path = Append(NullAt(i - 1).path, "null")
                    /\ NullAt(i).depth = NullAt(i - 1).depth - 3
                    /\ NullAt(i).alpha = -NullAt(i - 1).beta
                    /\ NullAt(i).beta = -NullAt(i - 1).beta + 1
                    /\ ~NullAt(i).allowed
              /\ (NullAt(i).ev = "back" /\ NullAt(i).null_score >= NullAt(i).beta) =>
                    \A j \in 1..Len(eng.stores) : eng.stores[j].call # NullAt(i).call
        /\ RootNullCut =>
              /\ res.value = res.beta
              /\ res.move = None
              /\ \A j \in 1..Len(eng.stores) : eng.stores[j].path # res.before.board.moves

\* a call without a deadline whose node played a null move and was cut off by
\* it, and whose null-move search stored records of its own
C32_NullMoveCutsOff ==
    /\ res.op = "search node"
    /\ res.clock = NoDeadline
    /\ RootNullCut
    /\ Len(eng.stores) > 0

\* C33: a _search call entered when the deadline has passed returns the
\* static evaluation of the board and no move, and leaves the transposition
\* table, the killers, the history table, the node counter and the board as
\* they were, whether the game is over on the board, the depth is 0 or the
\* table holds a record of the position
C33_LateSearchReturnsEvaluation ==
    (res.op = "search node" /\ res.clock = 0) =>
        /\ res.value = Evaluate(res.before, res.before.board.pos)
        /\ res.move = None
        /\ eng.tt = res.before.tt
        /\ eng.killers = res.before.killers
        /\ eng.history = res.before.history
        /\ eng.nodes_searched = res.before.nodes_searched
        /\ eng.board = res.before.board

\* a late call on a board where the side to move is checkmated, made by an
\* engine whose tables hold records, killers and history
C33_LateOnCheckmate ==
    /\ res.op = "search node"
    /\ res.clock = 0
    /\ IsCheckmate(res.before.board.pos)
    /\ Len(res.before.tt) > 0
    /\ DOMAIN res.before.killers # {}
    /\ DOMAIN res.before.history # {}

\* C34: no record is stored by a node below which a _search or
\* _quiescence_search call returned early because the deadline had passed
C34_NoRecordFromInterruptedSearch ==
    \A i \in 1..Len(eng.stores) : ~eng.stores[i].expired

\* C35: _update_killer_moves(move, ply) with ply < 64 leaves the slots of the
\* ply as they are when slot 0 holds the move, and otherwise puts the move in
\* slot 0 and the old slot 0 in slot 1; the slots of every other ply and the
\* rest of the engine stay as they were, a call with ply >= 64 changes
\* nothing, and the two slots of a ply never hold the same move
C35_KillerSlotsShift ==
    res.op = "killer" =>
        /\ res.ply < 64 =>
              KillersAt(eng, res.ply) =
                  IF KillersAt(res.before, res.ply)[1] = res.move
                  THEN KillersAt(res.before, res.ply)
                  ELSE <<res.move, KillersAt(res.before, res.ply)[1]>>
        /\ \A ply \in (0..(MAX_PLY + 1)) \ {res.ply} :
              KillersAt(eng, ply) = KillersAt(res.before, ply)
        /\ res.ply >= 64 => eng = res.before
        /\ [eng EXCEPT !.killers = <<>>] = [res.before EXCEPT !.killers = <<>>]
        /\ \A ply \in 0..(MAX_PLY + 1) :
              KillersAt(eng, ply)[1] # None => KillersAt(eng, ply)[1] # KillersAt(eng, ply)[2]

\* the last ply of the list had two different killers and got a third
C35_BothSlotsShifted ==
    /\ res.op = "killer"
    /\ res.ply = MAX_PLY - 1
    /\ KillersAt(res.before, res.ply)[2] # None
    /\ res.move \notin {KillersAt(res.before, res.ply)[1], KillersAt(res.before, res.ply)[2]}

\* C36: no step lowers the age of an engine, a get_best_move call raises it
\* by one unless the game is over on the board, in which case it keeps it, no
\* record is younger than the engine, and a store evicts only records whose
\* age is below the age of the search minus 2
C36_AgesGrowAndProtectRecentRecords ==
    /\ res.op # "none" => eng.age >= res.before.age
    /\ res.op = "get_best_move" =>
          eng.age = res.before.age + (IF BoardIsGameOver(res.before.board) THEN 0 ELSE 1)
    /\ \A i \in 1..Len(eng.tt) : eng.tt[i].age <= eng.age
    /\ \A i \in 1..Len(eng.stores) :
          /\ eng.stores[i].age = eng.age
          /\ \A a \in eng.stores[i].evicted : a < eng.stores[i].age - 2

\* a store of the fourth search evicted a record of the first while the table
\* held records of the second or third
C36_OldRecordEvicted ==
    /\ eng.age = 4
    /\ \E i \in 1..Len(eng.stores) :
          /\ 1 \in eng.stores[i].evicted
    /\ \E i \in 1..Len(eng.tt) : eng.tt[i].age \in {2, 3}

\* C37: a _search call, with the _quiescence_search and _order_moves calls it
\* makes, returns with the board (position, move stack and the positions to
\* unmake to) as it was given, whether it returns by a cutoff, after a null
\* move, after re-searches or because the deadline passed
C37_SearchRestoresBoard ==
    res.op = "search node" => eng.board = res.before.board

\* a call of depth 3 or more that met the deadline inside the tree after it
\* had played a null move, cut off on a move and stored records
C37_ReturnedThroughEveryPath ==
    /\ res.op = "search node"
    /\ res.depth >= 3
    /\ res.clock = 6
    /\ eng.expired
    /\ Len(eng.nulls) > 0
    /\ Len(eng.cutoffs) > 0
    /\ Len(eng.stores) > 0

\* the info depth lines and the info string lines on standard output that
\* belong to input line n
InfoDepthsOf(n) ==
    {i \in 1..Len(out) : out[i].cmd = n /\ out[i].stream = "out" /\ out[i].k = "info depth"}
SummariesOf(n) ==
    {i \in 1..Len(out) : out[i].cmd = n /\ out[i].stream = "out" /\ out[i].k = "info string"}
\* the last info depth line of input line n
LastInfoDepthOf(n) == CHOOSE i \in InfoDepthsOf(n) : \A j \in InfoDepthsOf(n) : j <= i

\* C38: among the lines a search front end prints for one go, the depths of
\* the info depth lines grow strictly, the info string summary follows every
\* info depth line and precedes bestmove, and when an info depth line was
\* printed the summary and bestmove are printed too and bestmove names the
\* move of the last info depth line
C38_InfoLinesOrdered ==
    \A n \in 1..nread :
        (frontend \in SyncEngines /\ (n < nread \/ LastIs("go"))) =>
            /\ \A i, j \in InfoDepthsOf(n) : i < j => out[i].depth < out[j].depth
            /\ \A i \in InfoDepthsOf(n) : \A j \in SummariesOf(n) : i < j
            /\ \A i \in SummariesOf(n) : \A j \in BestMovesOf(n) : i < j
            /\ InfoDepthsOf(n) # {} =>
                  /\ SummariesOf(n) # {}
                  /\ BestMovesOf(n) # {}
                  /\ \A j \in BestMovesOf(n) : out[j].move = out[LastInfoDepthOf(n)].move

\* a go whose search printed an info depth line for two depths whose moves
\* differ, then the summary and bestmove
C38_TwoIterationsPrinted ==
    /\ frontend \in SyncEngines
    /\ LastIs("go")
    /\ \E i, j \in InfoDepthsOf(nread) : i < j /\ out[i].move # out[j].move
    /\ SummariesOf(nread) # {}
    /\ BestMovesOf(nread) # {}

(***************************************************************************)
(* Searches without a deadline on positions with enough material for long  *)
(* capture sequences: get_best_move with a small iteration limit, and      *)
(* _quiescence_search called with a quiescence depth of the caller's       *)
(* choice.  The engine keeps its logs.                                     *)
(***************************************************************************)
DeepPositions ==
    {[kind |-> k, h |-> h, turn |-> t, fullmove |-> 1] :
        k \in {"n", "k"}, h \in MinDeepH..MaxDeepH, t \in Turns}
\* the quiescence depths of the direct calls: the first node, the last depth
\* that is searched and the first that is not
QuiescenceDepths == {0, MAX_QUIESCENCE_DEPTH, MAX_QUIESCENCE_DEPTH + 1}

DeepInit ==
    /\ UciIdle
    /\ eng \in {[NewEngine(t, d, DefaultTTSizeMB)
                     EXCEPT !.board = NewBoard(p), !.logging = TRUE] :
                   t \in SyncEngines, d \in 1..MaxDeepDepth, p \in DeepPositions}
    /\ res = NoCall
    /\ calls = 0

\* move = engine.get_best_move() with no time limit
CallGetBestMoveDeep ==
    /\ calls < MaxDeepCalls
    /\ calls' = calls + 1
    /\ Returned(GetBestMove(eng, NoDeadline), NoDeadline)
    /\ UNCHANGED uciVars

\* _quiescence_search returned r
QuiescenceReturned(r, w, depth) ==
    /\ eng' = r.e
    /\ res' = [op |-> "quiescence", before |-> eng, alpha |-> w[1], beta |-> w[2],
               depth |-> depth, value |-> r.value]

\* score = self._quiescence_search(board, alpha, beta, depth)
CallQuiescenceSearch ==
    \E w \in Windows, depth \in QuiescenceDepths :
        /\ calls < MaxDeepCalls
        /\ calls' = calls + 1
        /\ QuiescenceReturned(
               QuiescenceSearch([ClearLogs(eng) EXCEPT !.clock = NoDeadline,
                                                       !.expired = FALSE],
                                w[1], w[2], depth),
               w, depth)
        /\ UNCHANGED uciVars

\* the move returned is played
DeepPush ==
    /\ res.op = "get_best_move"
    /\ res.move # None
    /\ eng' = Pushed(eng, res.move)
    /\ res' = [op |-> "push", before |-> eng, move |-> res.move]
    /\ UNCHANGED <<calls, uciVars>>

DeepNext ==
    \/ CallGetBestMoveDeep
    \/ CallQuiescenceSearch
    \/ DeepPush

\* searches without a deadline
SpecDeep == DeepInit /\ [][DeepNext]_vars

=============================================================================
